---- MODULE Spec2Model ----
(***************************************************************************)
(* Model of the NCLEX 311 extraction scripts.                              *)
(*                                                                         *)
(*   Part A  src/scripts/enhanced_image_extraction.py                      *)
(*           EnhancedPDFExtractor.extract_content_with_images: images are  *)
(*           extracted, text elements become topics, and the associator    *)
(*           links images to topics (specification SpecAssoc).             *)
(*   Part B  src/python/scripts/extract_images_comprehensive.py            *)
(*           PDFImageExtractor.detect_image_regions: per page OCR text     *)
(*           boxes, text mask, region filter, sort and truncation          *)
(*           (specification SpecDetect).                                   *)
(*   Part C  src/python/scripts/analyze_extracted_images.py                *)
(*           the image quality scorer, the loop over the regions and       *)
(*           create_filtered_results (specification SpecAnalyze).          *)
(*   Part D  the content classifiers and _extract_subject of               *)
(*           enhanced_image_extraction.py and quick_start_extraction.py    *)
(*           (specification SpecClassify).                                 *)
(*   Part E  enhanced_validation and validate_extraction                   *)
(*           (specification SpecReport).                                   *)
(*   Part F  main() of enhanced_image_extraction.py with elements that     *)
(*           fail, and the JSON artifacts (specification SpecMain).        *)
(*   Part G  the page range from extract_images_cli.py to                  *)
(*           extract_images_comprehensive.py (specification SpecRange).    *)
(***************************************************************************)
EXTENDS Integers, Sequences, FiniteSets, TLC

VARIABLES pc, images, topics, image_counter, topic_counter, assoc_topic,
          id_writes, images_writes,
          dpc, doc, page_i, detected_regions, region_files, page_log, failure,
          apc, results_regions, region_pos, likely_images, likely_text, errors,
          page_stats,
          k_calls, k_text, classified, quick_classified, subject, hybrid_subject,
          k_images, k_topics,
          v_topics, v_images, validation_report, quick_report,
          entry_point, dependencies, pdf_exists, api_key, elements, element_pos,
          image_source, topic_source, artifacts, loaded, outcome,
          filtered_dir, manifest,
          cli_pc, pages_arg, pdf_pages, page_arg, page_range, pdf_doc, loop_page,
          direct_extraction, region_records, pages_done

varsA == <<pc, images, topics, image_counter, topic_counter, assoc_topic,
           id_writes, images_writes>>
varsB == <<dpc, doc, page_i, detected_regions, region_files, page_log, failure>>
varsC == <<apc, results_regions, region_pos, likely_images, likely_text, errors,
           page_stats>>
varsD == <<k_calls, k_text, classified, quick_classified, subject, hybrid_subject,
           k_images, k_topics>>
varsE == <<v_topics, v_images, validation_report, quick_report>>
varsF == <<entry_point, dependencies, pdf_exists, api_key, elements, element_pos,
           image_source, topic_source, artifacts, loaded, outcome>>
varsG == <<filtered_dir, manifest>>
varsH == <<cli_pc, pages_arg, pdf_pages, page_arg, page_range, pdf_doc, loop_page,
           direct_extraction, region_records, pages_done>>
vars == <<varsA, varsB, varsC, varsD, varsE, varsF, varsG, varsH>>

(***************************************************************************)
(* Bounds of the model.                                                    *)
(***************************************************************************)
MaxImages == 2
MaxTopics == 2
MaxPage == 3

Pages == 1..MaxPage

(***************************************************************************)
(* Generic helpers.                                                        *)
(***************************************************************************)
Abs(n) == IF n < 0 THEN -n ELSE n

Min(a, b) == IF a <= b THEN a ELSE b

Max(a, b) == IF a >= b THEN a ELSE b

\* the elements of a sequence
Range(seq) == {seq[k] : k \in 1..Len(seq)}

\* Optional[...] = None
None == <<>>

(***************************************************************************)
(* Part A: text, held as sequences of characters.                          *)
(***************************************************************************)
UpperChars == <<"A","B","C","D","E","F","G","H","I","J","K","L","M",
                "N","O","P","Q","R","S","T","U","V","W","X","Y","Z">>

LowerChars == <<"a","b","c","d","e","f","g","h","i","j","k","l","m",
                "n","o","p","q","r","s","t","u","v","w","x","y","z">>

\* str.lower() on one character
LowerChar(c) ==
    IF \E k \in 1..Len(UpperChars) : UpperChars[k] = c
    THEN LowerChars[CHOOSE k \in 1..Len(UpperChars) : UpperChars[k] = c]
    ELSE c

\* str.lower()
Lower(s) == [k \in 1..Len(s) |-> LowerChar(s[k])]

\* Python's  kw in s  on strings: kw occurs as a contiguous substring
Contains(s, kw) ==
    \E off \in 0..(Len(s) - Len(kw)) :
        \A k \in 1..Len(kw) : s[off + k] = kw[k]

Whitespace == {" ", "\t", "\n"}

\* str.strip(): the text without leading and trailing whitespace
Strip(s) ==
    LET ink == {k \in 1..Len(s) : s[k] \notin Whitespace}
    IN  IF ink = {} THEN <<>>
        ELSE LET lo == CHOOSE k \in ink : \A j \in ink : k <= j
                 hi == CHOOSE k \in ink : \A j \in ink : k >= j
             IN  SubSeq(s, lo, hi)

visual_keywords ==
    << <<"i","m","a","g","e">>,
       <<"p","i","c","t","u","r","e">>,
       <<"p","h","o","t","o","g","r","a","p","h">>,
       <<"f","i","g","u","r","e">>,
       <<"s","h","o","w","n">>,
       <<"o","b","s","e","r","v","e">>,
       <<"s","e","e">>,
       <<"v","i","s","u","a","l">>,
       <<"a","p","p","e","a","r","s">>,
       <<"d","e","m","o","n","s","t","r","a","t","e","s">>,
       <<"l","e","s","i","o","n">>,
       <<"r","a","s","h">>,
       <<"c","o","n","d","i","t","i","o","n">>,
       <<"s","k","i","n">>,
       <<"w","o","u","n","d">> >>

\* ImageExtractor._topic_mentions_visuals
TopicMentionsVisuals(content) ==
    LET content_lower == Lower(content)
    IN  \E k \in 1..Len(visual_keywords) : Contains(content_lower, visual_keywords[k])

(***************************************************************************)
(* The text elements a document can hold.                                  *)
(***************************************************************************)
\* "Give 5 mg of the drug by mouth two times a day with food."
TextPlain ==
    <<"G","i","v","e"," ","5"," ","m","g"," ","o","f"," ","t","h","e"," ","d","r","u","g"," ","b","y"," ","m","o","u","t","h"," ","t","w","o"," ","t","i","m","e","s"," ","a"," ","d","a","y"," ","w","i","t","h"," ","f","o","o","d",".">>

\* "The nurse notes a RASH on the left arm of the client."
TextRash ==
    <<"T","h","e"," ","n","u","r","s","e"," ","n","o","t","e","s"," ","a"," ","R","A","S","H"," ","o","n"," ","t","h","e"," ","l","e","f","t"," ","a","r","m"," ","o","f"," ","t","h","e"," ","c","l","i","e","n","t",".">>

\* "An unseen error in the dose may harm the client at home."
TextUnseen ==
    <<"A","n"," ","u","n","s","e","e","n"," ","e","r","r","o","r"," ","i","n"," ","t","h","e"," ","d","o","s","e"," ","m","a","y"," ","h","a","r","m"," ","t","h","e"," ","c","l","i","e","n","t"," ","a","t"," ","h","o","m","e",".">>

\* "See the rash."
TextShort ==
    <<"S","e","e"," ","t","h","e"," ","r","a","s","h",".">>

ElementTexts == {TextPlain, TextRash, TextUnseen, TextShort}

\* 'SUBJECT: Pharmacology\nWhich of the following?\nA. Fever\nB. Cough\nCorrect answer: B\nRationale: Cough is common.'
TextFullQuestion ==
    <<"S","U","B","J","E","C","T",":"," ","P","h","a","r","m","a","c","o","l","o","g","y","\n","W","h","i","c","h"," ","o","f"," ","t","h","e"," ","f","o","l","l","o","w","i","n","g","?","\n","A","."," ","F","e","v","e","r","\n","B","."," ","C","o","u","g","h","\n","C","o","r","r","e","c","t"," ","a","n","s","w","e","r",":"," ","B","\n","R","a","t","i","o","n","a","l","e",":"," ","C","o","u","g","h"," ","i","s"," ","c","o","m","m","o","n",".">>

\* the texts of Part A and a full question with its subject, options, answer
\* and rationale
DocumentTexts == ElementTexts \cup {TextFullQuestion}

\* the table of _topic_mentions_visuals over the document's texts
MentionsVisuals == [s \in DocumentTexts |-> TopicMentionsVisuals(s)]

\* len(element_text.strip()) < 50
MinElementLen == 50

StrippedLen == [s \in DocumentTexts |-> Len(Strip(s))]

(***************************************************************************)
(* Part A: records.                                                        *)
(***************************************************************************)
\* f"img_{image_counter:04d}"
ImageId(n) == <<"img", n>>

\* f"topic_{topic_counter:04d}"
TopicId(n) == <<"topic", n>>

\* dataclass ExtractedImage
ExtractedImage(n, ty, p) ==
    [image_id |-> ImageId(n), filename |-> <<ImageId(n), ".png">>,
     element_type |-> ty, page_number |-> p, bbox |-> None,
     associated_topic_id |-> None]

\* mutant: the topic is created already listing the images of its page
QuestionBlockEager(n, text, p) ==
    [topic_id |-> TopicId(n), content |-> text, page_number |-> p,
     images |-> SelectSeq([k \in 1..Len(images) |-> k],
                          LAMBDA k : images[k].page_number = p)]

\* dataclass QuestionBlock as _elements_to_topics builds it
QuestionBlock(n, text, p) ==
    [topic_id |-> TopicId(n), content |-> text, page_number |-> p, images |-> <<>>]

(***************************************************************************)
(* Part A: extract_content_with_images.                                    *)
(***************************************************************************)
\* _extract_with_api, one element carrying image_base64
ExtractImage ==
    /\ pc = "extract"
    /\ Len(images) < MaxImages
    /\ \E p \in Pages :
          images' = Append(images, ExtractedImage(image_counter, "Image", p))
    /\ image_counter' = image_counter + 1
    /\ id_writes' = Append(id_writes, 0)
    /\ UNCHANGED <<pc, topics, topic_counter, assoc_topic, images_writes>>
    /\ UNCHANGED <<varsB, varsC, varsD, varsE, varsF, varsG, varsH>>

\* _extract_with_api returns (elements, images)
ExtractReturn ==
    /\ pc = "extract"
    /\ pc' = "topics"
    /\ UNCHANGED <<images, topics, image_counter, topic_counter, assoc_topic,
                   id_writes, images_writes>>
    /\ UNCHANGED <<varsB, varsC, varsD, varsE, varsF, varsG, varsH>>

\* _elements_to_topics, one element of the loop
ElementToTopic ==
    /\ pc = "topics"
    /\ Len(topics) < MaxTopics
    /\ \E text \in ElementTexts, p \in Pages :
          IF StrippedLen[text] < MinElementLen
          THEN UNCHANGED <<topics, topic_counter, images_writes>>
          ELSE /\ topics' = Append(topics, QuestionBlock(topic_counter, text, p))
               /\ topic_counter' = topic_counter + 1
               /\ images_writes' = Append(images_writes, 0)
    /\ UNCHANGED <<pc, images, image_counter, assoc_topic, id_writes>>
    /\ UNCHANGED <<varsB, varsC, varsD, varsE, varsF, varsG, varsH>>

\* _elements_to_topics returns topics; associate_images_with_topics is entered
TopicsReturn ==
    /\ pc = "topics"
    /\ pc' = "associate"
    /\ assoc_topic' = 1
    /\ UNCHANGED <<images, topics, image_counter, topic_counter, id_writes, images_writes>>
    /\ UNCHANGED <<varsB, varsC, varsD, varsE, varsF, varsG, varsH>>

\* page_distance = abs(image.page_number - topic_page)
PageDistance(image, topic) == Abs(image.page_number - topic.page_number)

\* mutant: adjacent pages associate whatever the text says
ShouldAssociateAnyAdjacent(image, topic) ==
    PageDistance(image, topic) <= 1

\* the two branches of the inner loop that append the image
ShouldAssociate(image, topic) ==
    LET page_distance == PageDistance(image, topic)
    IN  IF page_distance = 0 THEN TRUE
        ELSE page_distance = 1 /\ MentionsVisuals[topic.content]

\* mutant: the back-reference is kept once it is set (first topic wins)
SetBackRefFirstWins(image, topic) ==
    IF image.associated_topic_id = None
    THEN [image EXCEPT !.associated_topic_id = topic.topic_id]
    ELSE image

\* mutant: the association also moves the image to the topic's page
SetBackRefMovesPage(image, topic) ==
    [image EXCEPT !.associated_topic_id = topic.topic_id,
                  !.page_number = topic.page_number]

\* image.associated_topic_id = topic.topic_id
SetBackRef(image, topic) ==
    [image EXCEPT !.associated_topic_id = topic.topic_id]

\* the image after one iteration of the inner loop
ImageAfterTopic(image, topic) ==
    IF ShouldAssociate(image, topic) THEN SetBackRef(image, topic) ELSE image

\* mutant: the adjacent-page branch sets the back-reference but appends nothing
TopicImagesSamePageOnly(topic) ==
    SelectSeq([k \in 1..Len(images) |-> k],
              LAMBDA k : PageDistance(images[k], topic) = 0)

\* topic_images: the images (by position in the images list) appended for topic
TopicImages(topic) ==
    SelectSeq([k \in 1..Len(images) |-> k],
              LAMBDA k : ShouldAssociate(images[k], topic))

\* associate_images_with_topics, one topic of the outer loop
AssociateTopic ==
    /\ pc = "associate"
    /\ assoc_topic <= Len(topics)
    /\ LET topic == topics[assoc_topic]
       IN  /\ images' = [k \in 1..Len(images) |-> ImageAfterTopic(images[k], topic)]
           /\ id_writes' = [k \in 1..Len(images) |->
                               IF ShouldAssociate(images[k], topic)
                               THEN id_writes[k] + 1 ELSE id_writes[k]]
           /\ topics' = [topics EXCEPT ![assoc_topic].images = TopicImages(topic)]
    /\ images_writes' = [images_writes EXCEPT ![assoc_topic] = @ + 1]
    /\ assoc_topic' = assoc_topic + 1
    /\ UNCHANGED <<pc, image_counter, topic_counter>>
    /\ UNCHANGED <<varsB, varsC, varsD, varsE, varsF, varsG, varsH>>

\* associate_images_with_topics returns; extract_content_with_images returns
AssociateReturn ==
    /\ pc = "associate"
    /\ assoc_topic > Len(topics)
    /\ pc' = "done"
    /\ UNCHANGED <<images, topics, image_counter, topic_counter, assoc_topic,
                   id_writes, images_writes>>
    /\ UNCHANGED <<varsB, varsC, varsD, varsE, varsF, varsG, varsH>>

\* extract_content_with_images is entered; the detector is not run
InitAssoc ==
    /\ pc = "extract"
    /\ images = <<>>
    /\ topics = <<>>
    /\ image_counter = 1
    /\ topic_counter = 1
    /\ assoc_topic = 0
    /\ id_writes = <<>>
    /\ images_writes = <<>>
    /\ dpc = "idle"
    /\ doc = <<>>
    /\ page_i = 0
    /\ detected_regions = <<>>
    /\ region_files = <<>>
    /\ page_log = <<>>
    /\ failure = "none"
    /\ apc = "idle"
    /\ results_regions = <<>>
    /\ region_pos = 0
    /\ likely_images = <<>>
    /\ likely_text = <<>>
    /\ errors = <<>>
    /\ page_stats = <<>>
    /\ k_calls = {}
    /\ k_text = <<>>
    /\ classified = <<>>
    /\ quick_classified = <<>>
    /\ subject = <<>>
    /\ hybrid_subject = <<>>
    /\ k_images = <<>>
    /\ k_topics = <<>>
    /\ v_topics = <<>>
    /\ v_images = <<>>
    /\ validation_report = <<>>
    /\ quick_report = <<>>
    /\ entry_point = "none"
    /\ dependencies = TRUE
    /\ pdf_exists = TRUE
    /\ api_key = TRUE
    /\ elements = <<>>
    /\ element_pos = 0
    /\ image_source = <<>>
    /\ topic_source = <<>>
    /\ artifacts = <<>>
    /\ loaded = <<>>
    /\ outcome = <<>>
    /\ filtered_dir = {}
    /\ manifest = <<>>
    /\ cli_pc = "idle"
    /\ pages_arg = <<>>
    /\ pdf_pages = <<>>
    /\ page_arg = <<>>
    /\ page_range = <<>>
    /\ pdf_doc = <<>>
    /\ loop_page = 0
    /\ direct_extraction = <<>>
    /\ region_records = <<>>
    /\ pages_done = <<>>

NextAssoc ==
    \/ ExtractImage
    \/ ExtractReturn
    \/ ElementToTopic
    \/ TopicsReturn
    \/ AssociateTopic
    \/ AssociateReturn

SpecAssoc == InitAssoc /\ [][NextAssoc]_vars

(***************************************************************************)
(* Part B: extract_images_comprehensive.py, the region detector.           *)
(***************************************************************************)
MaxDocPages == 2
MaxSeed == 101
MaxContours == 16

\* min_size = 100
min_size == 100

\* max_ratio = 10
max_ratio == 10

\* confidence >= 0.3, as the fraction MinConfidenceNum / MinConfidenceDen
MinConfidenceNum == 3

MinConfidenceDen == 10

\* image_regions[:10]
MaxRegionsPerPage == 10

\* padding = 5
padding == 5

\* int(data['conf'][i]) > 30
MinOcrConf == 30

\* w > 10 and h > 10
MinTextSize == 10

\* kernel = np.ones((5, 5)); dilate iterations=2; erode iterations=1
KernelSize == 5

DilateIterations == 2

ErodeIterations == 1

(***************************************************************************)
(* The pages a document can hold.  A page is its pixel shape, what OCR     *)
(* answers for it, and its ink: the outlines cv2 finds on the unmasked     *)
(* page, each as its bounding rectangle and twice its contourArea (cv2     *)
(* areas are multiples of one half).                                       *)
(***************************************************************************)
Shape(wd, ht, a2) == [w |-> wd, h |-> ht, area2 |-> a2]

\* the shapes of ink; the area of a contour is at most (w-1)*(h-1)
ShapePool ==
    << Shape(100, 100, 6000),      \* fill exactly 0.3
       Shape(200, 150, 59302),     \* a solid rectangle
       Shape(100, 100, 5999),      \* fill just below 0.3
       Shape(1000, 100, 100000),   \* aspect ratio exactly 10
       Shape(300, 200, 84000),
       Shape(99, 100, 15000),      \* one pixel too narrow
       Shape(200, 200, 40000),
       Shape(100, 1000, 120000),   \* aspect ratio exactly 10, upright
       Shape(150, 150, 18000),
       Shape(1001, 100, 100000),   \* aspect ratio just above 10
       Shape(400, 300, 192000),
       Shape(120, 110, 9240),
       Shape(100, 99, 15000),      \* one pixel too low
       Shape(250, 100, 45000),
       Shape(500, 400, 260000),
       Shape(100, 1001, 120000) >> \* aspect ratio just above 10, upright

\* the page is rendered at 200 dpi; ink number k lies in its own cell of a
\* grid to the right of the text column
PageShape == [rows |-> 6000, cols |-> 6000]

Blob(k, sh) ==
    [x |-> 1200 + ((k - 1) % 4) * 1100, y |-> 50 + ((k - 1) \div 4) * 1100,
     w |-> sh.w, h |-> sh.h, area2 |-> sh.area2]

\* a framed figure in the text column, with room for a label inside
FramedFigure == [x |-> 250, y |-> 250, w |-> 400, h |-> 400, area2 |-> 2 * 399 * 399]

OcrRow(c, l, t, wd, ht) == [conf |-> c, left |-> l, top |-> t, width |-> wd, height |-> ht]

\* what pytesseract.image_to_data answers: it raises, or it returns rows
OcrOutcomes ==
    << [raises |-> TRUE, rows |-> <<>>, framed |-> FALSE],
       [raises |-> FALSE, rows |-> <<>>, framed |-> FALSE],
       \* one large heading word
       [raises |-> FALSE, rows |-> <<OcrRow(96, 300, 300, 200, 200)>>, framed |-> FALSE],
       \* a block row, a doubtful word, and words too small to count
       [raises |-> FALSE,
        rows |-> <<OcrRow(-1, 0, 0, 900, 900), OcrRow(30, 300, 300, 200, 200),
                   OcrRow(90, 300, 600, 10, 40), OcrRow(90, 500, 600, 40, 10)>>,
        framed |-> FALSE],
       \* a label inside a framed figure
       [raises |-> FALSE, rows |-> <<OcrRow(96, 300, 300, 200, 200)>>, framed |-> TRUE],
       \* two words of body text at the page's corner
       [raises |-> FALSE,
        rows |-> <<OcrRow(31, 2, 3, 60, 30), OcrRow(85, 400, 300, 11, 11)>>,
        framed |-> FALSE] >>

\* page number q of the family of pages
PageInput(q) ==
    LET ocr == OcrOutcomes[(q % Len(OcrOutcomes)) + 1]
        n == (q \div Len(OcrOutcomes)) % (MaxContours + 1)
        stride == IF q % 2 = 0 THEN 1 ELSE 3
        blobs == [k \in 1..n |->
                    Blob(k, ShapePool[((q + stride * k) % Len(ShapePool)) + 1])]
    IN  [shape |-> PageShape, ocr |-> ocr,
         ink |-> IF ocr.framed THEN <<FramedFigure>> \o blobs ELSE blobs]

\* the documents: n pages, page j of the document with seed s is PageInput(s + 7j)
Docs ==
    {[j \in 1..n |-> PageInput(s + 7 * j)] : n \in 1..MaxDocPages, s \in 0..MaxSeed}

(***************************************************************************)
(* _detect_text_regions and _create_text_mask.                             *)
(***************************************************************************)
\* how a call ends: it returns a value, or an exception leaves it
Returns(v) == [raised |-> FALSE, value |-> v]

Raises == [raised |-> TRUE, value |-> <<>>]

\* the rows kept by the loop of _detect_text_regions, as (x, y, w, h)
KeptTextBoxes(rows) ==
    LET keep(r) == r.conf > MinOcrConf /\ r.width > MinTextSize /\ r.height > MinTextSize
        kept == SelectSeq(rows, keep)
    IN  [k \in 1..Len(kept) |->
            [x |-> kept[k].left, y |-> kept[k].top, w |-> kept[k].width, h |-> kept[k].height]]

\* mutant: the OCR call is not guarded and its exception leaves the function
DetectTextRegionsUnguarded(ocr) ==
    IF ocr.raises THEN Raises ELSE Returns(KeptTextBoxes(ocr.rows))

\* _detect_text_regions: try ... except Exception: return []
DetectTextRegions(ocr) ==
    IF ocr.raises THEN Returns(<<>>) ELSE Returns(KeptTextBoxes(ocr.rows))

\* the rectangle _create_text_mask zeroes for one text box: mask[y1:y2, x1:x2] = 0
PaddedBox(shape, tb) ==
    [x1 |-> Max(0, tb.x - padding), y1 |-> Max(0, tb.y - padding),
     x2 |-> Min(shape.cols, tb.x + tb.w + padding),
     y2 |-> Min(shape.rows, tb.y + tb.h + padding)]

\* _create_text_mask: the mask is 255 but on the rectangles listed here
CreateTextMask(shape, text_boxes) ==
    [k \in 1..Len(text_boxes) |-> PaddedBox(shape, text_boxes[k])]

(***************************************************************************)
(* _detect_image_like_regions.                                             *)
(***************************************************************************)
\* what two dilations and one erosion with the 5x5 element add on each side
MorphGrowth == ((KernelSize - 1) \div 2) * (DilateIterations - ErodeIterations)

\* rectangle m (x1, y1, x2, y2) lies inside the bounding rectangle of blob b
Encloses(b, m) ==
    b.x < m.x1 /\ b.y < m.y1 /\ m.x2 < b.x + b.w /\ m.y2 < b.y + b.h

\* the outline Canny finds around a zeroed rectangle on the white page, after the
\* morphology: its bounding rectangle and twice its area
OutlineContour(shape, m) ==
    LET x0 == Max(0, m.x1 - MorphGrowth)
        y0 == Max(0, m.y1 - MorphGrowth)
        x9 == Min(shape.cols, m.x2 + MorphGrowth)
        y9 == Min(shape.rows, m.y2 + MorphGrowth)
    IN  [x |-> x0, y |-> y0, w |-> x9 - x0, h |-> y9 - y0,
         area2 |-> 2 * (x9 - x0 - 1) * (y9 - y0 - 1)]

\* bitwise_and, Canny, dilate, erode, findContours(RETR_EXTERNAL): the external
\* contours of the masked page are those of the ink, and the outline of every
\* zeroed rectangle that no ink encloses
FindContours(page, text_mask) ==
    LET open == SelectSeq(text_mask,
                    LAMBDA m : ~\E b \in 1..Len(page.ink) : Encloses(page.ink[b], m))
    IN  page.ink \o [k \in 1..Len(open) |-> OutlineContour(page.shape, open[k])]

\* mutant: the size test is strict
PassesFilterStrictSize(c) ==
    /\ c.w > min_size /\ c.h > min_size
    /\ c.w <= max_ratio * c.h /\ c.h <= max_ratio * c.w
    /\ c.w * c.h > 0
    /\ MinConfidenceDen * c.area2 >= MinConfidenceNum * 2 * c.w * c.h

\* mutant: the minimum confidence is not tested
PassesFilterNoConfidence(c) ==
    /\ c.w >= min_size /\ c.h >= min_size
    /\ c.w <= max_ratio * c.h /\ c.h <= max_ratio * c.w

\* the nested tests of the contour loop; max(w/h, h/w) <= max_ratio is
\* w <= max_ratio * h and h <= max_ratio * w, and area / bbox_area >= 0.3 is
\* 10 * area >= 3 * bbox_area (both exact in double precision at these sizes)
PassesFilter(c) ==
    IF c.w >= min_size /\ c.h >= min_size
    THEN IF c.w <= max_ratio * c.h /\ c.h <= max_ratio * c.w
         THEN IF c.w * c.h > 0
              THEN MinConfidenceDen * c.area2 >= MinConfidenceNum * 2 * c.w * c.h
              ELSE FALSE
         ELSE FALSE
    ELSE FALSE

\* the tuple (x, y, w, h, confidence); confidence = area / bbox_area is held as
\* the fraction conf_num / conf_den
Region(c) ==
    [x |-> c.x, y |-> c.y, w |-> c.w, h |-> c.h,
     conf_num |-> c.area2, conf_den |-> 2 * c.w * c.h]

\* image_regions before the sort
Survivors(contours) ==
    LET kept == SelectSeq(contours, PassesFilter)
    IN  [k \in 1..Len(kept) |-> Region(kept[k])]

\* a/b >= c/d for a, c >= 0 and b, d > 0, by the whole parts and then the
\* remainders (the products a*d and c*b do not fit the checker's integers)
RECURSIVE FracGE(_, _, _, _)
FracGE(a, b, c, d) ==
    IF a \div b # c \div d THEN a \div b > c \div d
    ELSE IF c % d = 0 THEN TRUE
    ELSE IF a % b = 0 THEN FALSE
    ELSE FracGE(d, c % d, b, a % b)

\* a.confidence >= b.confidence
ConfGE(a, b) == FracGE(a.conf_num, a.conf_den, b.conf_num, b.conf_den)

\* a.confidence > b.confidence
ConfGT(a, b) == ~ConfGE(b, a)

\* r put into a list sorted by falling confidence, behind its equals
RECURSIVE InsertByConfidence(_, _)
InsertByConfidence(r, sorted) ==
    IF sorted = <<>> THEN <<r>>
    ELSE IF ConfGE(Head(sorted), r)
         THEN <<Head(sorted)>> \o InsertByConfidence(r, Tail(sorted))
         ELSE <<r>> \o sorted

\* mutant: the sort is by rising confidence (reverse=True forgotten)
RECURSIVE InsertByConfidenceRising(_, _)
InsertByConfidenceRising(r, sorted) ==
    IF sorted = <<>> THEN <<r>>
    ELSE IF ConfGE(r, Head(sorted))
         THEN <<Head(sorted)>> \o InsertByConfidenceRising(r, Tail(sorted))
         ELSE <<r>> \o sorted

RECURSIVE SortByConfidenceRising(_)
SortByConfidenceRising(regions) ==
    IF regions = <<>> THEN <<>>
    ELSE InsertByConfidenceRising(regions[Len(regions)],
                 SortByConfidenceRising(SubSeq(regions, 1, Len(regions) - 1)))

\* image_regions.sort(key=lambda x: x[4], reverse=True): stable, falling
RECURSIVE SortByConfidence(_)
SortByConfidence(regions) ==
    IF regions = <<>> THEN <<>>
    ELSE InsertByConfidence(regions[Len(regions)],
                            SortByConfidence(SubSeq(regions, 1, Len(regions) - 1)))

\* image_regions[:10]
TopCandidates(sorted) == SubSeq(sorted, 1, Min(Len(sorted), MaxRegionsPerPage))

\* _detect_image_like_regions from the contours on
DetectImageLikeRegions(contours) == TopCandidates(SortByConfidence(Survivors(contours)))

(***************************************************************************)
(* detect_image_regions: the loop over the pages.                          *)
(***************************************************************************)
\* region_info
RegionInfo(page_num, region_idx, r) ==
    [source |-> "detected_region", page |-> page_num + 1, region_index |-> region_idx + 1,
     bbox |-> <<r.x, r.y, r.x + r.w, r.y + r.h>>, width |-> r.w, height |-> r.h,
     conf_num |-> r.conf_num, conf_den |-> r.conf_den]

\* the locals of one pass of the loop body
PageLocals(page_num, page, text_boxes) ==
    LET text_mask == CreateTextMask(page.shape, text_boxes)
        contours == FindContours(page, text_mask)
    IN  [page |-> page_num + 1, ocr_raised |-> page.ocr.raises,
         text_boxes |-> text_boxes, text_mask |-> text_mask,
         contours |-> contours, survivors |-> Survivors(contours),
         image_regions |-> DetectImageLikeRegions(contours)]

\* the region_info records of the first n regions of a page
RegionInfos(page_num, image_regions, n) ==
    [k \in 1..n |-> RegionInfo(page_num, k - 1, image_regions[k])]

\* one page of the loop, every crop and save succeeding
DetectPage ==
    /\ dpc = "pages"
    /\ page_i < Len(doc)
    /\ LET page_num == page_i
           page == doc[page_i + 1]
           call == DetectTextRegions(page.ocr)
       IN  IF call.raised
           THEN /\ dpc' = "raised"
                /\ failure' = "ocr"
                /\ UNCHANGED <<page_i, detected_regions, region_files, page_log>>
           ELSE LET locals == PageLocals(page_num, page, call.value)
                    infos == RegionInfos(page_num, locals.image_regions,
                                         Len(locals.image_regions))
                IN  /\ region_files' = region_files \o infos
                    /\ detected_regions' = detected_regions \o infos
                    /\ page_log' = Append(page_log, locals)
                    /\ page_i' = page_i + 1
                    /\ UNCHANGED <<dpc, failure>>
    /\ UNCHANGED doc
    /\ UNCHANGED <<varsA, varsC, varsD, varsE, varsF, varsG, varsH>>

\* one page of the loop, page_img.crop or region_img.save raising for region
\* number n: the regions before it are on disk, nothing catches the exception
\* in detect_image_regions, and extract_all_images re-raises it
DetectPageSaveFails ==
    /\ dpc = "pages"
    /\ page_i < Len(doc)
    /\ LET page_num == page_i
           page == doc[page_i + 1]
           call == DetectTextRegions(page.ocr)
       IN  /\ ~call.raised
           /\ LET locals == PageLocals(page_num, page, call.value)
              IN  /\ \E n \in 1..Len(locals.image_regions) :
                        region_files' = region_files \o
                            RegionInfos(page_num, locals.image_regions, n - 1)
                  /\ page_log' = Append(page_log, locals)
    /\ dpc' = "raised"
    /\ failure' = "save"
    /\ UNCHANGED <<doc, page_i, detected_regions>>
    /\ UNCHANGED <<varsA, varsC, varsD, varsE, varsF, varsG, varsH>>

\* the loop is over: return detected_regions
DetectReturn ==
    /\ dpc = "pages"
    /\ page_i = Len(doc)
    /\ dpc' = "done"
    /\ UNCHANGED <<doc, page_i, detected_regions, region_files, page_log, failure>>
    /\ UNCHANGED <<varsA, varsC, varsD, varsE, varsF, varsG, varsH>>

\* PDFImageExtractor(pdf_path).detect_image_regions() on a document; the
\* extraction pipeline of Part A is not run
InitDetect ==
    /\ dpc = "pages"
    /\ doc \in Docs
    /\ page_i = 0
    /\ detected_regions = <<>>
    /\ region_files = <<>>
    /\ page_log = <<>>
    /\ failure = "none"
    /\ pc = "idle"
    /\ images = <<>>
    /\ topics = <<>>
    /\ image_counter = 1
    /\ topic_counter = 1
    /\ assoc_topic = 0
    /\ id_writes = <<>>
    /\ images_writes = <<>>
    /\ apc = "idle"
    /\ results_regions = <<>>
    /\ region_pos = 0
    /\ likely_images = <<>>
    /\ likely_text = <<>>
    /\ errors = <<>>
    /\ page_stats = <<>>
    /\ k_calls = {}
    /\ k_text = <<>>
    /\ classified = <<>>
    /\ quick_classified = <<>>
    /\ subject = <<>>
    /\ hybrid_subject = <<>>
    /\ k_images = <<>>
    /\ k_topics = <<>>
    /\ v_topics = <<>>
    /\ v_images = <<>>
    /\ validation_report = <<>>
    /\ quick_report = <<>>
    /\ entry_point = "none"
    /\ dependencies = TRUE
    /\ pdf_exists = TRUE
    /\ api_key = TRUE
    /\ elements = <<>>
    /\ element_pos = 0
    /\ image_source = <<>>
    /\ topic_source = <<>>
    /\ artifacts = <<>>
    /\ loaded = <<>>
    /\ outcome = <<>>
    /\ filtered_dir = {}
    /\ manifest = <<>>
    /\ cli_pc = "idle"
    /\ pages_arg = <<>>
    /\ pdf_pages = <<>>
    /\ page_arg = <<>>
    /\ page_range = <<>>
    /\ pdf_doc = <<>>
    /\ loop_page = 0
    /\ direct_extraction = <<>>
    /\ region_records = <<>>
    /\ pages_done = <<>>

NextDetect ==
    \/ DetectPage
    \/ DetectPageSaveFails
    \/ DetectReturn

SpecDetect == InitDetect /\ [][NextDetect]_vars

(***************************************************************************)
(* Part C: analyze_extracted_images.py, the image quality scorer.          *)
(***************************************************************************)
MaxResultRegions == 2
MaxFileSeed == 330

\* what lies at a region's filepath: nothing, bytes PIL cannot decode, or an
\* image with its size and the per-channel ImageStat var and mean (RGB)
NoFile == [kind |-> "missing"]

CorruptFile == [kind |-> "corrupt"]

ImageFile(wd, ht, var, mean) ==
    [kind |-> "image", width |-> wd, height |-> ht, var |-> var, mean |-> mean]

ImageSizes ==
    << <<300, 200>>,    \* area 60000, aspect ratio 1.5
       <<200, 25>>,     \* area 5000, aspect ratio 8
       <<250, 200>>,    \* area exactly 50000
       <<200, 100>>,    \* area exactly 20000
       <<100, 100>>,    \* area exactly 10000
       <<300, 100>>,    \* aspect ratio exactly 3
       <<100, 500>>,    \* aspect ratio exactly 5, area exactly 50000
       <<101, 100>>,    \* area just above 10000
       <<149, 50>>,     \* aspect ratio just below 3
       <<0, 120>> >>    \* a side of zero pixels

ChannelVars ==
    << <<2500, 2500, 2500>>,
       <<100, 100, 100>>,
       <<2000, 2000, 2000>>,   \* mean exactly 2000
       <<2000, 2000, 2001>>,
       <<1000, 1000, 1000>>,   \* mean exactly 1000
       <<500, 500, 500>>,      \* mean exactly 500
       <<900, 400, 201>> >>    \* mean just above 500

ChannelMeans ==
    << <<100, 100, 100>>,
       <<250, 250, 250>>,
       <<50, 50, 50>>,         \* mean exactly 50
       <<200, 200, 200>>,      \* mean exactly 200
       <<51, 50, 50>> >>       \* mean just above 50

\* file number q of the family of files
FileInput(q) ==
    LET ns == Len(ImageSizes)
        nv == Len(ChannelVars)
        nm == Len(ChannelMeans)
    IN  IF q % 29 = 5 THEN NoFile
        ELSE IF q % 29 = 17 THEN CorruptFile
        ELSE ImageFile(ImageSizes[(q % ns) + 1][1], ImageSizes[(q % ns) + 1][2],
                       ChannelVars[((q \div ns) % nv) + 1],
                       ChannelMeans[((q \div (ns * nv)) % nm) + 1])

\* one entry of data['extraction_methods']['detected_regions'], with what lies
\* at its filepath
ResultsRegion(p, idx, file) ==
    [filename |-> <<"page", p, "region", idx>>, filepath |-> <<"page", p, "region", idx>>,
     page |-> p, region_index |-> idx, disk |-> file]

\* the results files: n regions, region j of the file with seed s holds
\* FileInput(s + 81j); the regions lie on pages 1 and 2
ResultsFiles ==
    {[j \in 1..n |-> ResultsRegion(1 + ((s + j) % 2), j, FileInput(s + 81 * j))] :
        n \in 1..MaxResultRegions, s \in 0..MaxFileSeed}

\* score = 0 and the four if / elif ladders that add to it
SizeScore(area) ==
    IF area > 50000 THEN 30
    ELSE IF area > 20000 THEN 20
    ELSE IF area > 10000 THEN 10
    ELSE 0

\* sum(stat.var) and sum(stat.mean)
ChannelSum(stat) == stat[1] + stat[2] + stat[3]

\* variance = sum(stat.var) / len(stat.var); variance > c is sum > len * c
VarianceScore(var) ==
    IF ChannelSum(var) > Len(var) * 2000 THEN 25
    ELSE IF ChannelSum(var) > Len(var) * 1000 THEN 15
    ELSE IF ChannelSum(var) > Len(var) * 500 THEN 10
    ELSE 0

\* mutant: a ratio of exactly 3 still earns the upper band
AspectScoreInclusive(wd, ht) ==
    IF Max(wd, ht) <= 3 * Min(wd, ht) THEN 15
    ELSE IF Max(wd, ht) < 5 * Min(wd, ht) THEN 10
    ELSE 0

\* aspect_ratio = max(width, height) / min(width, height); aspect_ratio < c is
\* max < c * min
AspectScore(wd, ht) ==
    IF Max(wd, ht) < 3 * Min(wd, ht) THEN 15
    ELSE IF Max(wd, ht) < 5 * Min(wd, ht) THEN 10
    ELSE 0

\* brightness = sum(stat.mean) / len(stat.mean); 50 < brightness < 200
BrightnessScore(mean) ==
    IF Len(mean) * 50 < ChannelSum(mean) /\ ChannelSum(mean) < Len(mean) * 200
    THEN 10 ELSE 0

\* mutant: a score of exactly 40 counts as a likely image
LikelyImageInclusive(score) == score >= 40

\* 'likely_image': score > 40
LikelyImage(score) == score > 40

\* what leaves the try block: Image.open raises on bytes it cannot decode or
\* on a missing file, and the statistics of an image without pixels divide
\* by zero
ScoringRaises(file) ==
    \/ file.kind # "image"
    \/ file.width = 0
    \/ file.height = 0

\* the dict the try block returns
ScoredResult(file) ==
    LET score == SizeScore(file.width * file.height) + VarianceScore(file.var)
                    + AspectScore(file.width, file.height) + BrightnessScore(file.mean)
    IN  [width |-> file.width, height |-> file.height,
         area |-> file.width * file.height,
         variance |-> [sum |-> ChannelSum(file.var), n |-> Len(file.var)],
         brightness |-> [sum |-> ChannelSum(file.mean), n |-> Len(file.mean)],
         aspect_ratio |-> [num |-> Max(file.width, file.height),
                           den |-> Min(file.width, file.height)],
         score |-> score, likely_image |-> LikelyImage(score)]

\* the dict the except branch returns: {'error': str(e), 'likely_image': False}
ErrorResult(file) == [error |-> file.kind, likely_image |-> FALSE]

\* mutant: the body is not inside try / except
AnalyzeImageContentUnguarded(file) ==
    IF ScoringRaises(file) THEN Raises ELSE Returns(ScoredResult(file))

\* analyze_image_content
AnalyzeImageContent(file) ==
    IF ScoringRaises(file) THEN Returns(ErrorResult(file)) ELSE Returns(ScoredResult(file))

(***************************************************************************)
(* analyze_extraction_results: the loop over the detected regions.         *)
(***************************************************************************)
\* x[1].get('score', 0)
ScoreOf(entry) == IF "score" \in DOMAIN entry[2] THEN entry[2].score ELSE 0

\* e put into a list sorted by falling score, behind its equals
RECURSIVE InsertByScore(_, _)
InsertByScore(e, sorted) ==
    IF sorted = <<>> THEN <<e>>
    ELSE IF ScoreOf(Head(sorted)) >= ScoreOf(e)
         THEN <<Head(sorted)>> \o InsertByScore(e, Tail(sorted))
         ELSE <<e>> \o sorted

\* list.sort(key=lambda x: x[1]['score'], reverse=True): stable, falling
RECURSIVE SortByScore(_)
SortByScore(entries) ==
    IF entries = <<>> THEN <<>>
    ELSE InsertByScore(entries[Len(entries)],
                       SortByScore(SubSeq(entries, 1, Len(entries) - 1)))

\* the page-by-page breakdown: pages[page] = {'images': .., 'text': ..}
PageBreakdown(images_list, text_list) ==
    LET both == images_list \o text_list
        on(p, entries) == Cardinality({k \in 1..Len(entries) : entries[k][1].page = p})
    IN  [p \in {both[k][1].page : k \in 1..Len(both)} |->
            [images |-> on(p, images_list), text |-> on(p, text_list)]]

\* one region of the loop
AnalyzeRegion ==
    /\ apc = "regions"
    /\ region_pos < Len(results_regions)
    /\ LET region == results_regions[region_pos + 1]
       IN  IF region.disk.kind # "missing"
           THEN LET call == AnalyzeImageContent(region.disk)
                    analysis == call.value
                IN  IF call.raised
                    THEN /\ apc' = "raised"
                         /\ UNCHANGED <<region_pos, likely_images, likely_text, errors>>
                    ELSE /\ IF "error" \in DOMAIN analysis
                            THEN /\ errors' = Append(errors, <<region, analysis>>)
                                 /\ UNCHANGED <<likely_images, likely_text>>
                            ELSE IF analysis.likely_image
                            THEN /\ likely_images' = Append(likely_images, <<region, analysis>>)
                                 /\ UNCHANGED <<likely_text, errors>>
                            ELSE /\ likely_text' = Append(likely_text, <<region, analysis>>)
                                 /\ UNCHANGED <<likely_images, errors>>
                         /\ region_pos' = region_pos + 1
                         /\ UNCHANGED apc
           ELSE /\ errors' = Append(errors, <<region, [error |-> "File not found"]>>)
                /\ region_pos' = region_pos + 1
                /\ UNCHANGED <<apc, likely_images, likely_text>>
    /\ UNCHANGED <<results_regions, page_stats>>
    /\ UNCHANGED <<varsA, varsB, varsD, varsE, varsF, varsG, varsH>>

\* the loop is over: both lists are sorted, the pages are counted and the
\* four of them are returned
AnalyzeReturn ==
    /\ apc = "regions"
    /\ region_pos = Len(results_regions)
    /\ likely_images' = SortByScore(likely_images)
    /\ likely_text' = SortByScore(likely_text)
    /\ page_stats' = PageBreakdown(likely_images', likely_text')
    /\ apc' = "done"
    /\ UNCHANGED <<results_regions, region_pos, errors>>
    /\ UNCHANGED <<varsA, varsB, varsD, varsE, varsF, varsG, varsH>>

(***************************************************************************)
(* create_filtered_results(analysis, output_dir, min_score).               *)
(***************************************************************************)
\* the values of --min-score
MinScores == {20, 30, 40, 45, 60}

\* f"score_{analysis['score']:.0f}_{source_path.name}"
FilteredName(region, analysis) == <<"score", analysis.score, region.filepath>>

\* likely_images = analysis_results['likely_images']
FilterCandidates(images_list, text_list) == images_list

\* the entries the loop copies: if analysis['score'] >= min_score
Filtered(candidates, min_score) ==
    SelectSeq(candidates, LAMBDA e : e[2].score >= min_score)

\* create_filtered_results: the copies and the manifest
CreateFilteredResults ==
    /\ apc = "done"
    /\ \E min_score \in MinScores :
          LET kept == Filtered(FilterCandidates(likely_images, likely_text), min_score)
              filtered_manifest ==
                  [k \in 1..Len(kept) |->
                      [filename |-> FilteredName(kept[k][1], kept[k][2]),
                       original_filename |-> kept[k][1].filename,
                       page |-> kept[k][1].page,
                       score |-> kept[k][2].score,
                       dimensions |-> <<kept[k][2].width, "x", kept[k][2].height>>,
                       description |-> <<"Page", kept[k][1].page,
                                         "Region", kept[k][1].region_index>>]]
          IN  /\ filtered_dir' = {filtered_manifest[k].filename : k \in 1..Len(kept)}
              /\ manifest' = <<[filter_criteria |-> <<"Score >= ", min_score>>,
                                total_images |-> Len(filtered_manifest),
                                images |-> filtered_manifest]>>
    /\ apc' = "filtered"
    /\ UNCHANGED <<results_regions, region_pos, likely_images, likely_text, errors,
                   page_stats>>
    /\ UNCHANGED <<varsA, varsB, varsD, varsE, varsF, varsH>>

\* analyze_extraction_results(results_file) is entered with the regions read
\* from the results file
InitAnalyze ==
    /\ apc = "regions"
    /\ results_regions \in ResultsFiles
    /\ region_pos = 0
    /\ likely_images = <<>>
    /\ likely_text = <<>>
    /\ errors = <<>>
    /\ page_stats = <<>>
    /\ pc = "idle"
    /\ images = <<>>
    /\ topics = <<>>
    /\ image_counter = 1
    /\ topic_counter = 1
    /\ assoc_topic = 0
    /\ id_writes = <<>>
    /\ images_writes = <<>>
    /\ dpc = "idle"
    /\ doc = <<>>
    /\ page_i = 0
    /\ detected_regions = <<>>
    /\ region_files = <<>>
    /\ page_log = <<>>
    /\ failure = "none"
    /\ k_calls = {}
    /\ k_text = <<>>
    /\ classified = <<>>
    /\ quick_classified = <<>>
    /\ subject = <<>>
    /\ hybrid_subject = <<>>
    /\ k_images = <<>>
    /\ k_topics = <<>>
    /\ v_topics = <<>>
    /\ v_images = <<>>
    /\ validation_report = <<>>
    /\ quick_report = <<>>
    /\ entry_point = "none"
    /\ dependencies = TRUE
    /\ pdf_exists = TRUE
    /\ api_key = TRUE
    /\ elements = <<>>
    /\ element_pos = 0
    /\ image_source = <<>>
    /\ topic_source = <<>>
    /\ artifacts = <<>>
    /\ loaded = <<>>
    /\ outcome = <<>>
    /\ filtered_dir = {}
    /\ manifest = <<>>
    /\ cli_pc = "idle"
    /\ pages_arg = <<>>
    /\ pdf_pages = <<>>
    /\ page_arg = <<>>
    /\ page_range = <<>>
    /\ pdf_doc = <<>>
    /\ loop_page = 0
    /\ direct_extraction = <<>>
    /\ region_records = <<>>
    /\ pages_done = <<>>

NextAnalyze ==
    \/ AnalyzeRegion
    \/ AnalyzeReturn
    \/ CreateFilteredResults

SpecAnalyze == InitAnalyze /\ [][NextAnalyze]_vars

(***************************************************************************)
(* Part D: the content classifier of enhanced_image_extraction.py and its  *)
(* simplified copy in quick_start_extraction.py.  The regular expressions  *)
(* are modelled by what re.search and re.findall do on a text.             *)
(***************************************************************************)
Letters == {LowerChars[k] : k \in 1..Len(LowerChars)} \cup
           {UpperChars[k] : k \in 1..Len(UpperChars)}

Digits == {"0", "1", "2", "3", "4", "5", "6", "7", "8", "9"}

\* str.upper() on one character
UpperChar(c) ==
    IF \E k \in 1..Len(LowerChars) : LowerChars[k] = c
    THEN UpperChars[CHOOSE k \in 1..Len(LowerChars) : LowerChars[k] = c]
    ELSE c

\* a literal of a case-insensitive pattern stands at position i of s
LitAt(s, i, lit) ==
    /\ i >= 1
    /\ i + Len(lit) - 1 <= Len(s)
    /\ \A k \in 1..Len(lit) : LowerChar(s[i + k - 1]) = lit[k]

\* the first index at or after k whose character is not in class, or Len(s) + 1
RunEnd(s, k, class) ==
    IF \E j \in k..Len(s) : s[j] \notin class
    THEN CHOOSE j \in k..Len(s) : s[j] \notin class /\ \A m \in k..(j - 1) : s[m] \in class
    ELSE Len(s) + 1

\* the first index at or after k that holds c, or Len(s) + 1
FirstAt(s, k, c) ==
    IF \E j \in k..Len(s) : s[j] = c
    THEN CHOOSE j \in k..Len(s) : s[j] = c /\ \A m \in k..(j - 1) : s[m] # c
    ELSE Len(s) + 1

\* the smallest member of a non-empty set of indices
Least(S) == CHOOSE i \in S : \A j \in S : i <= j

\* the largest member of a non-empty set of indices
Greatest(S) == CHOOSE i \in S : \A j \in S : i >= j

\* <class>+([^\n]+) tried right after position p - 1: the greedy run of class
\* characters gives back characters until one that is not a newline follows;
\* 0 when the run is empty or nothing follows it on any line
CaptureStart(s, p, class, least) ==
    LET e == RunEnd(s, p, class)
        starts == {k \in (p + least)..e : k <= Len(s) /\ s[k] # "\n"}
    IN  IF starts = {} THEN 0 ELSE Greatest(starts)

\* ([^\n]+) from position c: the rest of the line
RestOfLine(s, c) == SubSeq(s, c, FirstAt(s, c, "\n") - 1)

\* the literals of the patterns, as sequences of characters
Word ==
    [ which |-> <<"w","h","i","c","h">>,
     following |-> <<"f","o","l","l","o","w","i","n","g">>,
     choose |-> <<"c","h","o","o","s","e">>,
     correct |-> <<"c","o","r","r","e","c","t">>,
     select_all_that_apply |-> <<"s","e","l","e","c","t"," ","a","l","l"," ","t","h","a","t"," ","a","p","p","l","y">>,
     choose_all |-> <<"c","h","o","o","s","e"," ","a","l","l">>,
     mark_all |-> <<"m","a","r","k"," ","a","l","l">>,
     appropriate |-> <<"a","p","p","r","o","p","r","i","a","t","e">>,
     match |-> <<"m","a","t","c","h">>,
     column |-> <<"c","o","l","u","m","n">>,
     drag |-> <<"d","r","a","g">>,
     drop |-> <<"d","r","o","p">>,
     grid |-> <<"g","r","i","d">>,
     table |-> <<"t","a","b","l","e">>,
     shown |-> <<"s","h","o","w","n">>,
     image |-> <<"i","m","a","g","e">>,
     picture |-> <<"p","i","c","t","u","r","e">>,
     shows |-> <<"s","h","o","w","s">>,
     photograph |-> <<"p","h","o","t","o","g","r","a","p","h">>,
     demonstrates |-> <<"d","e","m","o","n","s","t","r","a","t","e","s">>,
     figure |-> <<"f","i","g","u","r","e">>,
     illustrates |-> <<"i","l","l","u","s","t","r","a","t","e","s">>,
     see |-> <<"s","e","e">>,
     observe |-> <<"o","b","s","e","r","v","e">>,
     condition |-> <<"c","o","n","d","i","t","i","o","n">>,
     visual |-> <<"v","i","s","u","a","l">>,
     examination |-> <<"e","x","a","m","i","n","a","t","i","o","n">>,
     correct_answer |-> <<"c","o","r","r","e","c","t"," ","a","n","s","w","e","r">>,
     answer |-> <<"a","n","s","w","e","r">>,
     the_answer_is |-> <<"t","h","e"," ","a","n","s","w","e","r"," ","i","s">>,
     subject |-> <<"s","u","b","j","e","c","t">>,
     subject_colon |-> <<"s","u","b","j","e","c","t",":">>,
     rationale |-> <<"r","a","t","i","o","n","a","l","e">>,
     explanation |-> <<"e","x","p","l","a","n","a","t","i","o","n">>,
     because |-> <<"b","e","c","a","u","s","e">>]

\* the two ballot boxes of the sata pattern, one character each
BallotBoxes == {"U+2610", "U+25A1"}

\* the shapes of regular expression the tables use
Phrase(a) == [kind |-> "phrase", a |-> a, b |-> <<>>]

Gap(a, b) == [kind |-> "gap", a |-> a, b |-> b]

Shape0(kind) == [kind |-> kind, a |-> <<>>, b |-> <<>>]

\* (?i)a.*b is found in s: the dot does not match a newline
SearchGap(s, a, b) ==
    \E i \in 1..Len(s) :
        /\ LitAt(s, i, a)
        /\ \E j \in (i + Len(a))..Len(s) :
              /\ LitAt(s, j, b)
              /\ \A k \in (i + Len(a))..(j - 1) : s[k] # "\n"

\* [A-D]\.\s+[A-Z] (dotted) or \([A-D]\)\s+[A-Z] (not dotted), ignoring case
SearchLabel(s, dotted) ==
    \E i \in 1..Len(s) :
        LET after == IF dotted THEN i + 2 ELSE i + 3
            e == RunEnd(s, after, Whitespace)
        IN  /\ after <= Len(s)
            /\ IF dotted
               THEN LowerChar(s[i]) \in {"a", "b", "c", "d"} /\ s[i + 1] = "."
               ELSE s[i] = "(" /\ LowerChar(s[i + 1]) \in {"a", "b", "c", "d"}
                               /\ s[i + 2] = ")"
            /\ e > after
            /\ e <= Len(s)
            /\ s[e] \in Letters

\* open .*? close, on one line
SearchEnclosed(s, open, close) ==
    \E i \in 1..Len(s) :
        /\ s[i] = open
        /\ \E j \in (i + 1)..Len(s) :
              s[j] = close /\ \A k \in (i + 1)..(j - 1) : s[k] # "\n"

\* re.search(pattern, text, re.IGNORECASE | re.MULTILINE) is not None
Search(pattern, s) ==
    CASE pattern.kind = "phrase" -> \E i \in 1..Len(s) : LitAt(s, i, pattern.a)
      [] pattern.kind = "gap" -> SearchGap(s, pattern.a, pattern.b)
      [] pattern.kind = "dot_label" -> SearchLabel(s, TRUE)
      [] pattern.kind = "paren_label" -> SearchLabel(s, FALSE)
      [] pattern.kind = "checkbox" ->
            \E i \in 1..Len(s) :
                \/ s[i] \in BallotBoxes
                \/ /\ s[i] = "["
                   /\ RunEnd(s, i + 1, Whitespace) <= Len(s)
                   /\ s[RunEnd(s, i + 1, Whitespace)] = "]"
      [] pattern.kind = "underscores" ->
            \E i \in 1..(Len(s) - 2) : s[i] = "_" /\ s[i + 1] = "_" /\ s[i + 2] = "_"
      [] pattern.kind = "brackets" -> SearchEnclosed(s, "[", "]")
      [] pattern.kind = "parens" -> SearchEnclosed(s, "(", ")")

\* self.patterns.items(): the types in the order of the dict
TypeOrder == <<"multiple_choice", "sata", "fill_blank", "matrix">>

Weighted(pattern, tenths) == [pattern |-> pattern, weight |-> tenths]

\* self.patterns, the weights in tenths
patterns ==
    [multiple_choice |->
        << Weighted(Shape0("dot_label"), 9),
           Weighted(Shape0("paren_label"), 8),
           Weighted(Gap(Word.which, Word.following), 3),
           Weighted(Gap(Word.choose, Word.correct), 3) >>,
     sata |->
        << Weighted(Phrase(Word.select_all_that_apply), 10),
           Weighted(Gap(Word.choose_all, Word.correct), 9),
           Weighted(Gap(Word.mark_all, Word.appropriate), 8),
           Weighted(Shape0("checkbox"), 7) >>,
     fill_blank |->
        << Weighted(Shape0("underscores"), 9),
           Weighted(Shape0("brackets"), 8),
           Weighted(Shape0("parens"), 3) >>,
     matrix |->
        << Weighted(Gap(Word.match, Word.column), 9),
           Weighted(Gap(Word.drag, Word.drop), 8),
           Weighted(Phrase(Word.grid), 7),
           Weighted(Phrase(Word.table), 3) >>]

\* self.image_indicators
image_indicators ==
    << Gap(Word.shown, Word.image),
       Gap(Word.picture, Word.shows),
       Gap(Word.photograph, Word.demonstrates),
       Gap(Word.figure, Word.illustrates),
       Gap(Word.see, Word.image),
       Gap(Word.observe, Word.condition),
       Gap(Word.visual, Word.examination) >>

(***************************************************************************)
(* The confidences are Python floats.  A double is held as the number of   *)
(* tenths it stands for and the number of doubles it lies above (below, if *)
(* negative) the double nearest to that many tenths.                       *)
(***************************************************************************)
Double(t, u) == [t |-> t, u |-> u]

\* a > b on doubles
DoubleGT(a, b) == a.t > b.t \/ (a.t = b.t /\ a.u > b.u)

\* where IEEE 754 addition of a double (t, u) and a weight of w tenths does
\* not give the double nearest to t + w tenths: <<t, u, w>> and the doubles
\* in between
Rounding ==
    (<<6, 0, 3>> :> -1) @@ (<<8, 0, 9>> :> 1) @@ (<<9, 0, 8>> :> 1) @@
    (<<11, 0, 3>> :> 1) @@ (<<14, 1, 3>> :> 1) @@ (<<14, 1, 9>> :> 1) @@
    (<<16, 0, 3>> :> 1) @@ (<<16, 0, 8>> :> 1) @@ (<<17, 1, 7>> :> 1) @@
    (<<19, 0, 3>> :> -1) @@ (<<19, 0, 7>> :> -1) @@ (<<23, 0, 3>> :> -1) @@
    (<<24, 0, 3>> :> -1) @@ (<<24, 1, 10>> :> 1) @@ (<<26, -1, 3>> :> -1) @@
    (<<26, -1, 8>> :> -1) @@ (<<26, 0, 8>> :> 1) @@ (<<27, -1, 3>> :> -1) @@
    (<<27, 0, 7>> :> 1) @@ (<<34, -1, 3>> :> -2) @@ (<<34, 0, 3>> :> -1)

\* confidence += weight
AddWeight(c, w) ==
    Double(c.t + w, IF <<c.t, c.u, w>> \in DOMAIN Rounding
                    THEN Rounding[<<c.t, c.u, w>>] ELSE 0)

\* mutant: the confidence is returned as it was summed
ClampConfidenceNone(c) == c

\* min(best_confidence, 1.0)
ClampConfidence(c) == IF DoubleGT(c, Double(10, 0)) THEN Double(10, 0) ELSE c

\* the inner loop over the patterns of one type: the weights of the patterns
\* found in the text, added in the order of the list
RECURSIVE PatternSum(_, _, _)
PatternSum(text, pats, n) ==
    IF n = 0 THEN Double(0, 0)
    ELSE IF Search(pats[n].pattern, text)
         THEN AddWeight(PatternSum(text, pats, n - 1), pats[n].weight)
         ELSE PatternSum(text, pats, n - 1)

\* the loop over self.image_indicators finds one
ReferencesVisuals(text) ==
    \E k \in 1..Len(image_indicators) : Search(image_indicators[k], text)

\* confidence of one type at the end of the body of the outer loop
TypeConfidence(q_type, text, has_images) ==
    LET summed == PatternSum(text, patterns[q_type], Len(patterns[q_type]))
    IN  IF has_images /\ ReferencesVisuals(text) THEN AddWeight(summed, 3) ELSE summed

\* best_type and best_confidence after the first n types
RECURSIVE BestAfter(_, _, _)
BestAfter(text, has_images, n) ==
    IF n = 0 THEN [best_type |-> "unknown", best_confidence |-> Double(0, 0)]
    ELSE LET before == BestAfter(text, has_images, n - 1)
             confidence == TypeConfidence(TypeOrder[n], text, has_images)
         IN  IF DoubleGT(confidence, before.best_confidence)
             THEN [best_type |-> TypeOrder[n], best_confidence |-> confidence]
             ELSE before

OptionLabels == {"A", "B", "C", "D", "E", "F"}

\* where the group of [A-F]\.\s+([^\n]+) (dotted) or \([A-F]\)\s+([^\n]+)
\* starts when the pattern is tried at position i; 0 when it does not match
OptionStart(s, i, dotted) ==
    IF dotted
    THEN IF i + 1 <= Len(s) /\ s[i] \in OptionLabels /\ s[i + 1] = "."
         THEN CaptureStart(s, i + 2, Whitespace, 1) ELSE 0
    ELSE IF i + 2 <= Len(s) /\ s[i] = "(" /\ s[i + 1] \in OptionLabels /\ s[i + 2] = ")"
         THEN CaptureStart(s, i + 3, Whitespace, 1) ELSE 0

\* re.findall(pattern, text, re.MULTILINE) from position pos on: the matches
\* from left to right, each starting where the one before ended
RECURSIVE FindAllOptions(_, _, _)
FindAllOptions(s, dotted, pos) ==
    LET hits == {i \in pos..Len(s) : OptionStart(s, i, dotted) # 0}
    IN  IF hits = {} THEN <<>>
        ELSE LET c == OptionStart(s, Least(hits), dotted)
             IN  <<RestOfLine(s, c)>> \o FindAllOptions(s, dotted, FirstAt(s, c, "\n"))

\* mutant: the matches of both label formats are put together
ExtractOptionsMerged(text, best_type) ==
    IF best_type \in {"multiple_choice", "sata"}
    THEN FindAllOptions(text, TRUE, 1) \o FindAllOptions(text, FALSE, 1)
    ELSE <<>>

\* if best_type in ['multiple_choice', 'sata']: the matches of the first
\* option pattern that has any
ExtractOptions(text, best_type) ==
    IF best_type \in {"multiple_choice", "sata"}
    THEN IF FindAllOptions(text, TRUE, 1) # <<>>
         THEN FindAllOptions(text, TRUE, 1)
         ELSE FindAllOptions(text, FALSE, 1)
    ELSE <<>>

\* the patterns of _extract_answer: the literal, and whether :? follows it
answer_patterns ==
    << [lit |-> Word.correct_answer, colon |-> TRUE],
       [lit |-> Word.answer, colon |-> TRUE],
       [lit |-> Word.the_answer_is, colon |-> FALSE] >>

\* where the group ([A-F]) stands when the pattern is tried at position i;
\* 0 when it does not match there
AnswerAt(s, i, pattern) ==
    IF LitAt(s, i, pattern.lit)
    THEN LET p == i + Len(pattern.lit)
             q == RunEnd(s, IF pattern.colon /\ p <= Len(s) /\ s[p] = ":"
                            THEN p + 1 ELSE p, Whitespace)
         IN  IF q <= Len(s) /\ LowerChar(s[q]) \in {"a", "b", "c", "d", "e", "f"}
             THEN q ELSE 0
    ELSE 0

\* the loop of _extract_answer from pattern number n on: re.search gives the
\* leftmost match, match.group(1).upper() is returned
RECURSIVE ExtractAnswerFrom(_, _)
ExtractAnswerFrom(text, n) ==
    IF n > Len(answer_patterns) THEN None
    ELSE LET hits == {i \in 1..Len(text) : AnswerAt(text, i, answer_patterns[n]) # 0}
         IN  IF hits = {} THEN ExtractAnswerFrom(text, n + 1)
             ELSE <<UpperChar(text[AnswerAt(text, Least(hits), answer_patterns[n])])>>

\* _extract_answer
ExtractAnswer(text) == ExtractAnswerFrom(text, 1)

rationale_patterns == <<Word.rationale, Word.explanation, Word.because>>

\* where the group ([^.]+\.) of (?i)lit:?\s*([^.]+\.) starts when the pattern
\* is tried at position i (re.DOTALL); 0 when it does not match there.  The
\* group needs one character before the first full stop: the white space and
\* then the colon are given back for it.
RationaleAt(s, i, lit) ==
    IF LitAt(s, i, lit)
    THEN LET p == i + Len(lit)
             d == FirstAt(s, p, ".")
             colon == p <= Len(s) /\ s[p] = ":"
             c0 == IF colon THEN p + 1 ELSE p
             r == RunEnd(s, c0, Whitespace)
         IN  IF d > Len(s) THEN 0
             ELSE IF r < d THEN r
             ELSE IF r - 1 >= c0 THEN r - 1
             ELSE IF colon THEN p
             ELSE 0
    ELSE 0

\* the loop of _extract_rationale from pattern number n on
RECURSIVE ExtractRationaleFrom(_, _)
ExtractRationaleFrom(text, n) ==
    IF n > Len(rationale_patterns) THEN None
    ELSE LET hits == {i \in 1..Len(text) : RationaleAt(text, i, rationale_patterns[n]) # 0}
         IN  IF hits = {} THEN ExtractRationaleFrom(text, n + 1)
             ELSE LET c == RationaleAt(text, Least(hits), rationale_patterns[n])
                  IN  Strip(SubSeq(text, c, FirstAt(text, c, ".")))

\* _extract_rationale
ExtractRationale(text) == ExtractRationaleFrom(text, 1)

\* QuestionDetectionResult
QuestionDetectionResult(best, text) ==
    [question_type |-> best.best_type,
     confidence |-> ClampConfidence(best.best_confidence),
     extracted_options |-> ExtractOptions(text, best.best_type),
     correct_answer |-> ExtractAnswer(text),
     rationale |-> ExtractRationale(text)]

\* EnhancedQuestionClassifier.classify
Classify(text, has_images) ==
    QuestionDetectionResult(BestAfter(text, has_images, Len(TypeOrder)), text)

\* QuickQuestionClassifier.classify: the same tables and loop, no image hint
QuickClassify(text) ==
    QuestionDetectionResult(BestAfter(text, FALSE, Len(TypeOrder)), text)

(***************************************************************************)
(* _extract_subject of EnhancedPDFExtractor and of HybridPDFExtractor.     *)
(***************************************************************************)
\* \w
WordChars == Letters \cup Digits \cup {"_"}

\* where the group of SUBJECT[:\s]+([^\n]+) starts when the pattern is tried
\* at position i, ignoring case; 0 when it does not match there
SubjectAt(s, i) ==
    IF LitAt(s, i, Word.subject)
    THEN CaptureStart(s, i + Len(Word.subject), Whitespace \cup {":"}, 1)
    ELSE 0

\* where the group of SUBJECT:\s*([^\n]+) starts when tried at position i
HybridSubjectAt(s, i) ==
    IF LitAt(s, i, Word.subject_colon)
    THEN CaptureStart(s, i + Len(Word.subject_colon), Whitespace, 0)
    ELSE 0

\* ^([A-Z][A-Z\s]{least,50}): matches at position i (re.IGNORECASE |
\* re.MULTILINE): i starts a line and holds a letter, letters and white space
\* run on from it, and the first other character is the colon
HeadingAt(s, i, least) ==
    /\ i = 1 \/ s[i - 1] = "\n"
    /\ s[i] \in Letters
    /\ LET e == RunEnd(s, i + 1, Letters \cup Whitespace)
       IN  /\ e <= Len(s)
           /\ s[e] = ":"
           /\ e - (i + 1) >= least
           /\ e - (i + 1) <= 50

\* match.group(1) of the leftmost match of pattern number n, or None; the
\* second pattern is the first with (?i), which re.IGNORECASE already gives
SubjectMatch(s, n) ==
    IF n \in {1, 2}
    THEN LET hits == {i \in 1..Len(s) : SubjectAt(s, i) # 0}
         IN  IF hits = {} THEN None ELSE RestOfLine(s, SubjectAt(s, Least(hits)))
    ELSE LET hits == {i \in 1..Len(s) : HeadingAt(s, i, 5)}
         IN  IF hits = {} THEN None
             ELSE SubSeq(s, Least(hits),
                         RunEnd(s, Least(hits) + 1, Letters \cup Whitespace) - 1)

\* match.group(1) of the leftmost match of pattern number n of the quick copy
HybridSubjectMatch(s, n) ==
    IF n \in {1, 2}
    THEN LET hits == {i \in 1..Len(s) : HybridSubjectAt(s, i) # 0}
         IN  IF hits = {} THEN None ELSE RestOfLine(s, HybridSubjectAt(s, Least(hits)))
    ELSE LET hits == {i \in 1..Len(s) : HeadingAt(s, i, 10)}
         IN  IF hits = {} THEN None
             ELSE SubSeq(s, Least(hits),
                         RunEnd(s, Least(hits) + 1, Letters \cup Whitespace) - 1)

\* subject = match.group(1).strip(); subject = re.sub(r'[^\w\s\'-]', '', subject)
CleanSubject(group) ==
    SelectSeq(Strip(group), LAMBDA c : c \in WordChars \cup Whitespace \cup {"'", "-"})

\* mutant: the first pattern that matches decides, its subject short or not
RECURSIVE ExtractSubjectFromFirstDecides(_, _)
ExtractSubjectFromFirstDecides(text, n) ==
    IF n > 3 THEN None
    ELSE IF SubjectMatch(text, n) = None THEN ExtractSubjectFromFirstDecides(text, n + 1)
    ELSE IF Len(CleanSubject(SubjectMatch(text, n))) > 5
         THEN CleanSubject(SubjectMatch(text, n))
         ELSE None

\* the loop of EnhancedPDFExtractor._extract_subject from pattern number n on
RECURSIVE ExtractSubjectFrom(_, _)
ExtractSubjectFrom(text, n) ==
    IF n > 3 THEN None
    ELSE IF SubjectMatch(text, n) = None THEN ExtractSubjectFrom(text, n + 1)
    ELSE IF Len(CleanSubject(SubjectMatch(text, n))) > 5
         THEN CleanSubject(SubjectMatch(text, n))
         ELSE ExtractSubjectFrom(text, n + 1)

\* EnhancedPDFExtractor._extract_subject
ExtractSubject(text) == ExtractSubjectFrom(text, 1)

\* the loop of HybridPDFExtractor._extract_subject from pattern number n on:
\* return match.group(1).strip()
RECURSIVE HybridExtractSubjectFrom(_, _)
HybridExtractSubjectFrom(text, n) ==
    IF n > 3 THEN None
    ELSE IF HybridSubjectMatch(text, n) = None THEN HybridExtractSubjectFrom(text, n + 1)
    ELSE Strip(HybridSubjectMatch(text, n))

\* HybridPDFExtractor._extract_subject
HybridExtractSubject(text) == HybridExtractSubjectFrom(text, 1)

(***************************************************************************)
(* The texts the classifier is given.                                      *)
(***************************************************************************)
\* 'Select all that apply: A. Fever B. Cough'
TextSataFever ==
    <<"S","e","l","e","c","t"," ","a","l","l"," ","t","h","a","t"," ","a","p","p","l","y",":"," ","A","."," ","F","e","v","e","r"," ","B","."," ","C","o","u","g","h">>

\* 'Which of the following?\nA. Fever\n(B) Cough\nC. Rash'
TextMixedLabels ==
    <<"W","h","i","c","h"," ","o","f"," ","t","h","e"," ","f","o","l","l","o","w","i","n","g","?","\n","A","."," ","F","e","v","e","r","\n","(","B",")"," ","C","o","u","g","h","\n","C","."," ","R","a","s","h">>

\* 'Select all that apply. Observe the skin condition shown in the image.'
TextSataVisual ==
    <<"S","e","l","e","c","t"," ","a","l","l"," ","t","h","a","t"," ","a","p","p","l","y","."," ","O","b","s","e","r","v","e"," ","t","h","e"," ","s","k","i","n"," ","c","o","n","d","i","t","i","o","n"," ","s","h","o","w","n"," ","i","n"," ","t","h","e"," ","i","m","a","g","e",".">>

\* '1. SUBJECT: ab\nNURSING CARE: Assess the client.'
TextSubjectShort ==
    <<"1","."," ","S","U","B","J","E","C","T",":"," ","a","b","\n","N","U","R","S","I","N","G"," ","C","A","R","E",":"," ","A","s","s","e","s","s"," ","t","h","e"," ","c","l","i","e","n","t",".">>

ClassifierTexts ==
    <<
       TextSataFever,
       \* 'Select all that apply: [ ] ____'
       <<"S","e","l","e","c","t"," ","a","l","l"," ","t","h","a","t"," ","a","p","p","l","y",":"," ","["," ","]"," ","_","_","_","_">>,
       \* 'See the image below'
       <<"S","e","e"," ","t","h","e"," ","i","m","a","g","e"," ","b","e","l","o","w">>,
       TextMixedLabels,
       \* '(A) Fever\n(B) Cough'
       <<"(","A",")"," ","F","e","v","e","r","\n","(","B",")"," ","C","o","u","g","h">>,
       \* 'Incorrect answer: A. Correct answer: C.'
       <<"I","n","c","o","r","r","e","c","t"," ","a","n","s","w","e","r",":"," ","A","."," ","C","o","r","r","e","c","t"," ","a","n","s","w","e","r",":"," ","C",".">>,
       \* 'Correct answer: C'
       <<"C","o","r","r","e","c","t"," ","a","n","s","w","e","r",":"," ","C">>,
       \* 'The answer is b'
       <<"T","h","e"," ","a","n","s","w","e","r"," ","i","s"," ","b">>,
       \* 'The dose is ____ mg. Correct answer: C'
       <<"T","h","e"," ","d","o","s","e"," ","i","s"," ","_","_","_","_"," ","m","g","."," ","C","o","r","r","e","c","t"," ","a","n","s","w","e","r",":"," ","C">>,
       \* 'Match each drug in the column. Correct answer: C'
       <<"M","a","t","c","h"," ","e","a","c","h"," ","d","r","u","g"," ","i","n"," ","t","h","e"," ","c","o","l","u","m","n","."," ","C","o","r","r","e","c","t"," ","a","n","s","w","e","r",":"," ","C">>,
       \* 'Select all that apply. Choose all correct. [ ]'
       <<"S","e","l","e","c","t"," ","a","l","l"," ","t","h","a","t"," ","a","p","p","l","y","."," ","C","h","o","o","s","e"," ","a","l","l"," ","c","o","r","r","e","c","t","."," ","["," ","]">>,
       TextSataVisual,
       \* 'Observe the skin condition of the client in the photo.'
       <<"O","b","s","e","r","v","e"," ","t","h","e"," ","s","k","i","n"," ","c","o","n","d","i","t","i","o","n"," ","o","f"," ","t","h","e"," ","c","l","i","e","n","t"," ","i","n"," ","t","h","e"," ","p","h","o","t","o",".">>,
       \* 'Which of the following is shown in the image? Choose the correct one.'
       <<"W","h","i","c","h"," ","o","f"," ","t","h","e"," ","f","o","l","l","o","w","i","n","g"," ","i","s"," ","s","h","o","w","n"," ","i","n"," ","t","h","e"," ","i","m","a","g","e","?"," ","C","h","o","o","s","e"," ","t","h","e"," ","c","o","r","r","e","c","t"," ","o","n","e",".">>,
       \* 'Enter the dose (mg): ___'
       <<"E","n","t","e","r"," ","t","h","e"," ","d","o","s","e"," ","(","m","g",")",":"," ","_","_","_">>,
       \* 'Drag and drop each item into the grid of the table.'
       <<"D","r","a","g"," ","a","n","d"," ","d","r","o","p"," ","e","a","c","h"," ","i","t","e","m"," ","i","n","t","o"," ","t","h","e"," ","g","r","i","d"," ","o","f"," ","t","h","e"," ","t","a","b","l","e",".">>,
       \* 'Please answer a question about the drug.'
       <<"P","l","e","a","s","e"," ","a","n","s","w","e","r"," ","a"," ","q","u","e","s","t","i","o","n"," ","a","b","o","u","t"," ","t","h","e"," ","d","r","u","g",".">>,
       \* 'a. fever\nb. cough'
       <<"a","."," ","f","e","v","e","r","\n","b","."," ","c","o","u","g","h">>,
       \* 'U+2610 Fever U+2610 Cough'
       <<"U+2610"," ","F","e","v","e","r"," ","U+2610"," ","C","o","u","g","h">>,
       \* 'A. Fever  \n  B. Cough\nC.  \n\nD. x'
       <<"A","."," ","F","e","v","e","r"," "," ","\n"," "," ","B","."," ","C","o","u","g","h","\n","C","."," "," ","\n","\n","D","."," ","x">>,
       \* 'SUBJECT: Cardiology'
       <<"S","U","B","J","E","C","T",":"," ","C","a","r","d","i","o","l","o","g","y">>,
       TextSubjectShort,
       \* '1. SUBJECT: a.b.c.d!'
       <<"1","."," ","S","U","B","J","E","C","T",":"," ","a",".","b",".","c",".","d","!">>,
       \* 'subject: Heart'
       <<"s","u","b","j","e","c","t",":"," ","H","e","a","r","t">>,
       \* 'CARDIAC CARE: Monitor the rhythm.'
       <<"C","A","R","D","I","A","C"," ","C","A","R","E",":"," ","M","o","n","i","t","o","r"," ","t","h","e"," ","r","h","y","t","h","m",".">>,
       \* 'AB    : x'
       <<"A","B"," "," "," "," ",":"," ","x">>,
       \* 'Re SUBJECT - abc'
       <<"R","e"," ","S","U","B","J","E","C","T"," ","-"," ","a","b","c">>,
       TextFullQuestion,
       \* 'Rationale: . Because:. Explanation.'
       <<"R","a","t","i","o","n","a","l","e",":"," ","."," ","B","e","c","a","u","s","e",":","."," ","E","x","p","l","a","n","a","t","i","o","n",".">>,
       \* 'Correct answer: G. Answer: E'
       <<"C","o","r","r","e","c","t"," ","a","n","s","w","e","r",":"," ","G","."," ","A","n","s","w","e","r",":"," ","E">>,
       \* 'E. Enter the dose: ____ mg'
       <<"E","."," ","E","n","t","e","r"," ","t","h","e"," ","d","o","s","e",":"," ","_","_","_","_"," ","m","g">>
    >>

(***************************************************************************)
(* The calls: classify with and without the image hint, the quick copy,    *)
(* both _extract_subject, and _elements_to_topics on the text as the one   *)
(* element of a page.  Each variable lists what its call returned.         *)
(***************************************************************************)
TextSet == {ClassifierTexts[k] : k \in 1..Len(ClassifierTexts)}

\* the results of the calls on the texts
ClassifyResult == [s \in TextSet |-> [h \in BOOLEAN |-> Classify(s, h)]]

QuickClassifyResult == [s \in TextSet |-> QuickClassify(s)]

ExtractSubjectResult == [s \in TextSet |-> ExtractSubject(s)]

HybridExtractSubjectResult == [s \in TextSet |-> HybridExtractSubject(s)]

\* the page of the element, and the images a document can have on it
ElementPage == 1

ImageLists == {<<>>, <<ExtractedImage(1, "Image", ElementPage)>>}

\* QuestionBlock(...) as _elements_to_topics fills it
ClassifiedQuestionBlock(n, text, p, classification, subj) ==
    [question_type |-> classification.question_type,
     content |-> text,
     options |-> classification.extracted_options,
     correct_answer |-> classification.correct_answer,
     rationale |-> classification.rationale,
     subject |-> subj,
     page_number |-> p,
     confidence_score |-> classification.confidence,
     images |-> <<>>,
     topic_id |-> TopicId(n)]

\* _elements_to_topics([element], images): the topics it returns
ElementsToTopics(text, page_num, imgs) ==
    IF Len(Strip(text)) < MinElementLen THEN <<>>
    ELSE LET page_images == SelectSeq(imgs, LAMBDA img : img.page_number = page_num)
             has_images == Len(page_images) > 0
         IN  <<ClassifiedQuestionBlock(1, text, page_num,
                                       ClassifyResult[text][has_images],
                                       ExtractSubjectResult[text])>>

ElementsToTopicsResult ==
    [s \in TextSet |-> [imgs \in ImageLists |-> ElementsToTopics(s, ElementPage, imgs)]]

\* classifier.classify(text, has_images)
ClassifyCall ==
    /\ \E h \in BOOLEAN :
          /\ <<"classify", h>> \notin k_calls
          /\ k_calls' = k_calls \cup {<<"classify", h>>}
          /\ classified' = [classified EXCEPT ![h] = <<ClassifyResult[k_text][h]>>]
    /\ UNCHANGED <<k_text, quick_classified, subject, hybrid_subject, k_images, k_topics>>
    /\ UNCHANGED <<varsA, varsB, varsC, varsE, varsF, varsG, varsH>>

\* QuickQuestionClassifier().classify(text)
QuickClassifyCall ==
    /\ <<"quick_classify">> \notin k_calls
    /\ k_calls' = k_calls \cup {<<"quick_classify">>}
    /\ quick_classified' = <<QuickClassifyResult[k_text]>>
    /\ UNCHANGED <<k_text, classified, subject, hybrid_subject, k_images, k_topics>>
    /\ UNCHANGED <<varsA, varsB, varsC, varsE, varsF, varsG, varsH>>

\* EnhancedPDFExtractor._extract_subject(text)
ExtractSubjectCall ==
    /\ <<"extract_subject">> \notin k_calls
    /\ k_calls' = k_calls \cup {<<"extract_subject">>}
    /\ subject' = <<ExtractSubjectResult[k_text]>>
    /\ UNCHANGED <<k_text, classified, quick_classified, hybrid_subject, k_images, k_topics>>
    /\ UNCHANGED <<varsA, varsB, varsC, varsE, varsF, varsG, varsH>>

\* HybridPDFExtractor._extract_subject(text)
HybridExtractSubjectCall ==
    /\ <<"hybrid_extract_subject">> \notin k_calls
    /\ k_calls' = k_calls \cup {<<"hybrid_extract_subject">>}
    /\ hybrid_subject' = <<HybridExtractSubjectResult[k_text]>>
    /\ UNCHANGED <<k_text, classified, quick_classified, subject, k_images, k_topics>>
    /\ UNCHANGED <<varsA, varsB, varsC, varsE, varsF, varsG, varsH>>

\* EnhancedPDFExtractor._elements_to_topics(elements, images)
ElementsToTopicsCall ==
    /\ <<"elements_to_topics">> \notin k_calls
    /\ k_calls' = k_calls \cup {<<"elements_to_topics">>}
    /\ k_topics' = ElementsToTopicsResult[k_text][k_images]
    /\ UNCHANGED <<k_text, classified, quick_classified, subject, hybrid_subject, k_images>>
    /\ UNCHANGED <<varsA, varsB, varsC, varsE, varsF, varsG, varsH>>

\* a text and the images of its page are given; nothing has been called
InitClassify ==
    /\ k_calls = {}
    /\ k_text \in TextSet
    /\ classified = [h \in BOOLEAN |-> <<>>]
    /\ quick_classified = <<>>
    /\ subject = <<>>
    /\ hybrid_subject = <<>>
    /\ k_images \in ImageLists
    /\ k_topics = <<>>
    /\ pc = "idle"
    /\ images = <<>>
    /\ topics = <<>>
    /\ image_counter = 1
    /\ topic_counter = 1
    /\ assoc_topic = 0
    /\ id_writes = <<>>
    /\ images_writes = <<>>
    /\ dpc = "idle"
    /\ doc = <<>>
    /\ page_i = 0
    /\ detected_regions = <<>>
    /\ region_files = <<>>
    /\ page_log = <<>>
    /\ failure = "none"
    /\ apc = "idle"
    /\ results_regions = <<>>
    /\ region_pos = 0
    /\ likely_images = <<>>
    /\ likely_text = <<>>
    /\ errors = <<>>
    /\ page_stats = <<>>
    /\ v_topics = <<>>
    /\ v_images = <<>>
    /\ validation_report = <<>>
    /\ quick_report = <<>>
    /\ entry_point = "none"
    /\ dependencies = TRUE
    /\ pdf_exists = TRUE
    /\ api_key = TRUE
    /\ elements = <<>>
    /\ element_pos = 0
    /\ image_source = <<>>
    /\ topic_source = <<>>
    /\ artifacts = <<>>
    /\ loaded = <<>>
    /\ outcome = <<>>
    /\ filtered_dir = {}
    /\ manifest = <<>>
    /\ cli_pc = "idle"
    /\ pages_arg = <<>>
    /\ pdf_pages = <<>>
    /\ page_arg = <<>>
    /\ page_range = <<>>
    /\ pdf_doc = <<>>
    /\ loop_page = 0
    /\ direct_extraction = <<>>
    /\ region_records = <<>>
    /\ pages_done = <<>>

NextClassify ==
    \/ ClassifyCall
    \/ QuickClassifyCall
    \/ ExtractSubjectCall
    \/ HybridExtractSubjectCall
    \/ ElementsToTopicsCall

SpecClassify == InitClassify /\ [][NextClassify]_vars

(***************************************************************************)
(* Part E: enhanced_validation of enhanced_image_extraction.py and         *)
(* validate_extraction of quick_start_extraction.py, the reducers over the *)
(* final topic list (specification SpecReport).                            *)
(***************************************************************************)
MaxReportTopics == 3

\* the fields of a QuestionBlock the reducers read
ReportTopic(q_type, subj, conf, imgs) ==
    [question_type |-> q_type, subject |-> subj, confidence_score |-> conf,
     images |-> imgs]

\* the topics a list can hold: a check-box question with a subject and an
\* image (0.7), a question that only got the image bonus (0.3), a text no
\* pattern matched (0.0, no subject), and a grid with two images and no
\* subject (0.7)
ReportTopics ==
    { ReportTopic("sata", <<"C","a","r","d","i","o","l","o","g","y">>,
                  Double(7, 0), <<1>>),
      ReportTopic("multiple_choice", <<"P","h","a","r","m","a","c","o","l","o","g","y">>,
                  Double(3, 0), <<>>),
      ReportTopic("unknown", None, Double(0, 0), <<>>),
      ReportTopic("matrix", None, Double(7, 0), <<1, 2>>) }

TopicLists == UNION {[1..n -> ReportTopics] : n \in 0..MaxReportTopics}

\* the images list handed to enhanced_validation, by image number
ReportImageLists == {<<1, 2>>, <<1, 2, 3>>}

\* sum(confidence_scores) / len(confidence_scores) is a double.  Where it is
\* not the double nearest to the exact mean of the tenths: the scores, and
\* the doubles in between, first with sum() adding from left to right
\* (CPython up to 3.11), then with the compensated sum() of CPython 3.12
AverageRounding ==
    (<<0, 0, 3>> :> <<-1, -1>>) @@ (<<0, 0, 7>> :> <<-1, -1>>) @@
    (<<0, 3, 0>> :> <<-1, -1>>) @@ (<<0, 3, 3>> :> <<-1, -1>>) @@
    (<<0, 7, 0>> :> <<-1, -1>>) @@ (<<0, 7, 7>> :> <<-1, -1>>) @@
    (<<3, 0, 0>> :> <<-1, -1>>) @@ (<<3, 0, 3>> :> <<-1, -1>>) @@
    (<<3, 3, 0>> :> <<-1, -1>>) @@ (<<3, 3, 7>> :> <<-1, -1>>) @@
    (<<3, 7, 3>> :> <<0, -1>>) @@ (<<7, 0, 0>> :> <<-1, -1>>) @@
    (<<7, 0, 7>> :> <<-1, -1>>) @@ (<<7, 3, 3>> :> <<0, -1>>) @@
    (<<7, 7, 0>> :> <<-1, -1>>) @@ (<<7, 7, 7>> :> <<-1, -1>>) @@
    (<<0, 3, 3, 3>> :> <<-1, -1>>) @@ (<<0, 3, 3, 7>> :> <<-1, -1>>) @@
    (<<0, 3, 7, 3>> :> <<0, -1>>) @@ (<<0, 7, 3, 3>> :> <<0, -1>>) @@
    (<<0, 7, 7, 7>> :> <<-1, -1>>) @@ (<<3, 0, 3, 3>> :> <<-1, -1>>) @@
    (<<3, 0, 3, 7>> :> <<-1, -1>>) @@ (<<3, 0, 7, 3>> :> <<0, -1>>) @@
    (<<3, 3, 0, 3>> :> <<-1, -1>>) @@ (<<3, 3, 0, 7>> :> <<-1, -1>>) @@
    (<<3, 3, 3, 0>> :> <<-1, -1>>) @@ (<<3, 3, 3, 7>> :> <<-1, -1>>) @@
    (<<3, 3, 7, 0>> :> <<-1, -1>>) @@ (<<3, 3, 7, 3>> :> <<-1, -1>>) @@
    (<<3, 3, 7, 7>> :> <<-1, 0>>) @@ (<<3, 7, 0, 3>> :> <<0, -1>>) @@
    (<<3, 7, 3, 0>> :> <<0, -1>>) @@ (<<3, 7, 3, 3>> :> <<0, -1>>) @@
    (<<7, 0, 3, 3>> :> <<0, -1>>) @@ (<<7, 0, 7, 7>> :> <<-1, -1>>) @@
    (<<7, 3, 0, 3>> :> <<0, -1>>) @@ (<<7, 3, 3, 0>> :> <<0, -1>>) @@
    (<<7, 3, 3, 3>> :> <<0, -1>>) @@ (<<7, 7, 0, 7>> :> <<-1, -1>>) @@
    (<<7, 7, 7, 0>> :> <<-1, -1>>) @@ (<<7, 7, 7, 3>> :> <<-1, 0>>)

SumStyles == {1, 2}

\* the mean as a double: the exact mean is num / den tenths, and u counts
\* the doubles it lies above the double nearest to it
AverageConfidence(confidence_scores, style) ==
    LET n == Len(confidence_scores)
        tenths == [k \in 1..n |-> confidence_scores[k].t]
        Sum[k \in 0..n] == IF k = 0 THEN 0 ELSE Sum[k - 1] + tenths[k]
    IN  [num |-> Sum[n], den |-> n,
         u |-> IF tenths \in DOMAIN AverageRounding
               THEN AverageRounding[tenths][style] ELSE 0]

\* min(confidence_scores), max(confidence_scores)
MinConfidence(confidence_scores) ==
    LET n == Len(confidence_scores)
        Low[k \in 1..n] ==
            IF k = 1 THEN confidence_scores[1]
            ELSE IF DoubleGT(Low[k - 1], confidence_scores[k])
                 THEN confidence_scores[k] ELSE Low[k - 1]
    IN  Low[n]

MaxConfidence(confidence_scores) ==
    LET n == Len(confidence_scores)
        High[k \in 1..n] ==
            IF k = 1 THEN confidence_scores[1]
            ELSE IF DoubleGT(confidence_scores[k], High[k - 1])
                 THEN confidence_scores[k] ELSE High[k - 1]
    IN  High[n]

\* mutant: a confidence of exactly 0.3 counts as valid
ValidTopicInclusive(topic) ==
    topic.subject # None /\ ~DoubleGT(Double(3, 0), topic.confidence_score)

\* if topic.subject and topic.confidence_score > 0.3
ValidTopic(topic) ==
    topic.subject # None /\ DoubleGT(topic.confidence_score, Double(3, 0))

\* a / b on ints: the quotient, or ZeroDivisionError
Divide(a, b) == IF b = 0 THEN [raises |-> "ZeroDivisionError"] ELSE [num |-> a, den |-> b]

\* type_counts
TypeCounts(topic_list) ==
    [q_type \in {topic_list[k].question_type : k \in 1..Len(topic_list)} |->
        Cardinality({k \in 1..Len(topic_list) : topic_list[k].question_type = q_type})]

\* {'error': 'No topics extracted'}
ErrorMarker == [error |-> "No topics extracted"]

\* the report of enhanced_validation past the check for an empty list
ValidationReport(topic_list, image_list, style) ==
    LET total_topics == Len(topic_list)
        confidence_scores == [k \in 1..total_topics |-> topic_list[k].confidence_score]
        valid_topics == Cardinality({k \in 1..total_topics : ValidTopic(topic_list[k])})
        with_images == {k \in 1..total_topics :
                           topic_list[k].images # <<>> /\ Len(topic_list[k].images) > 0}
        Assoc[k \in 0..total_topics] ==
            IF k = 0 THEN 0
            ELSE Assoc[k - 1] + (IF k \in with_images THEN Len(topic_list[k].images) ELSE 0)
        success_rate == IF total_topics > 0 THEN Divide(valid_topics, total_topics)
                        ELSE [num |-> 0, den |-> 1]
        image_coverage == IF total_topics > 0
                          THEN Divide(Cardinality(with_images), total_topics)
                          ELSE [num |-> 0, den |-> 1]
    IN  [total_topics |-> total_topics,
         total_images |-> Len(image_list),
         valid_topics |-> valid_topics,
         topics_with_images |-> Cardinality(with_images),
         image_associations |-> Assoc[total_topics],
         success_rate |-> success_rate,
         image_coverage |-> image_coverage,
         question_type_distribution |-> TypeCounts(topic_list),
         average_confidence |->
             IF confidence_scores # <<>> THEN AverageConfidence(confidence_scores, style)
             ELSE [num |-> 0, den |-> 1, u |-> 0],
         confidence_range |->
             IF confidence_scores # <<>>
             THEN [min |-> MinConfidence(confidence_scores),
                   max |-> MaxConfidence(confidence_scores)]
             ELSE [min |-> Double(0, 0), max |-> Double(0, 0)]]

\* mutant: no check for an empty list
EnhancedValidationUnguarded(topic_list, image_list, style) ==
    ValidationReport(topic_list, image_list, style)

\* enhanced_validation(topics, images)
EnhancedValidation(topic_list, image_list, style) ==
    IF Len(topic_list) = 0 THEN ErrorMarker
    ELSE ValidationReport(topic_list, image_list, style)

\* validate_extraction(topics): the same reducer without the image counts
ValidateExtraction(topic_list, style) ==
    IF Len(topic_list) = 0 THEN ErrorMarker
    ELSE LET report == ValidationReport(topic_list, <<>>, style)
         IN  [total_topics |-> report.total_topics,
              valid_topics |-> report.valid_topics,
              success_rate |-> report.success_rate,
              question_type_distribution |-> report.question_type_distribution,
              average_confidence |-> report.average_confidence,
              confidence_range |-> report.confidence_range]

\* validation_report = enhanced_validation(topics, images)
EnhancedValidationCall ==
    /\ validation_report = <<>>
    /\ \E style \in SumStyles :
          validation_report' = <<EnhancedValidation(v_topics, v_images, style)>>
    /\ UNCHANGED <<v_topics, v_images, quick_report>>
    /\ UNCHANGED <<varsA, varsB, varsC, varsD, varsF, varsG, varsH>>

\* validation_report = validate_extraction(topics)
ValidateExtractionCall ==
    /\ quick_report = <<>>
    /\ \E style \in SumStyles :
          quick_report' = <<ValidateExtraction(v_topics, style)>>
    /\ UNCHANGED <<v_topics, v_images, validation_report>>
    /\ UNCHANGED <<varsA, varsB, varsC, varsD, varsF, varsG, varsH>>

\* a final topic list and image list; no reducer has been called
InitReport ==
    /\ v_topics \in TopicLists
    /\ v_images \in ReportImageLists
    /\ validation_report = <<>>
    /\ quick_report = <<>>
    /\ k_calls = {}
    /\ quick_classified = <<>>
    /\ subject = <<>>
    /\ hybrid_subject = <<>>
    /\ k_topics = <<>>
    /\ pc = "idle"
    /\ images = <<>>
    /\ topics = <<>>
    /\ image_counter = 1
    /\ topic_counter = 1
    /\ assoc_topic = 0
    /\ id_writes = <<>>
    /\ images_writes = <<>>
    /\ dpc = "idle"
    /\ doc = <<>>
    /\ page_i = 0
    /\ detected_regions = <<>>
    /\ region_files = <<>>
    /\ page_log = <<>>
    /\ failure = "none"
    /\ apc = "idle"
    /\ results_regions = <<>>
    /\ region_pos = 0
    /\ likely_images = <<>>
    /\ likely_text = <<>>
    /\ errors = <<>>
    /\ page_stats = <<>>
    /\ k_text = <<>>
    /\ classified = <<>>
    /\ k_images = <<>>
    /\ entry_point = "none"
    /\ dependencies = TRUE
    /\ pdf_exists = TRUE
    /\ api_key = TRUE
    /\ elements = <<>>
    /\ element_pos = 0
    /\ image_source = <<>>
    /\ topic_source = <<>>
    /\ artifacts = <<>>
    /\ loaded = <<>>
    /\ outcome = <<>>
    /\ filtered_dir = {}
    /\ manifest = <<>>
    /\ cli_pc = "idle"
    /\ pages_arg = <<>>
    /\ pdf_pages = <<>>
    /\ page_arg = <<>>
    /\ page_range = <<>>
    /\ pdf_doc = <<>>
    /\ loop_page = 0
    /\ direct_extraction = <<>>
    /\ region_records = <<>>
    /\ pages_done = <<>>

NextReport ==
    \/ EnhancedValidationCall
    \/ ValidateExtractionCall

SpecReport == InitReport /\ [][NextReport]_vars

(***************************************************************************)
(* Part F: main() of enhanced_image_extraction.py around the pipeline of   *)
(* Part A.  The document is the list of elements the partition returns;    *)
(* an element can fail to decode or to convert, and can lack its page      *)
(* number.  The JSON artifacts are held as JSON values, and a reader loads *)
(* them back with json.load (specification SpecMain).                      *)
(***************************************************************************)
MaxElements == 3

\* one element: its type, str(element), the page of the PDF it lies on, its
\* metadata dict, and whether converting it to a topic raises
Element(type, text, page, metadata, raises) ==
    [type |-> type, text |-> text, page |-> page, metadata |-> metadata,
     raises |-> raises]

\* the elements a document can hold: an image with its coordinates, an
\* image whose base64 data does not decode, a table image and a text
\* without page_number, three texts long enough to become topics (one of
\* them raising when converted), and a title too short to be one
DocumentElements ==
    { Element("Image", <<>>, 1,
              [page_number |-> 1, image_base64 |-> "png",
               coordinates |-> [top_left |-> [x |-> 10, y |-> 20],
                                bottom_right |-> [x |-> 110, y |-> 220]]], FALSE),
      Element("Image", <<>>, 2, [page_number |-> 2, image_base64 |-> "corrupt"], FALSE),
      Element("Table", <<>>, 2, [image_base64 |-> "png"], FALSE),
      Element("NarrativeText", TextRash, 1, [page_number |-> 1], FALSE),
      Element("NarrativeText", TextFullQuestion, 2, [page_number |-> 2], FALSE),
      Element("NarrativeText", TextPlain, 1, <<>>, FALSE),
      Element("NarrativeText", TextUnseen, 1, [page_number |-> 1], TRUE),
      Element("Title", TextShort, 1, [page_number |-> 1], FALSE) }

ElementLists == UNION {[1..n -> DocumentElements] : n \in 0..MaxElements}

\* metadata.get("page_number", 0), getattr(element.metadata, 'page_number', 0)
PageNumberOf(element) ==
    IF "page_number" \in DOMAIN element.metadata THEN element.metadata.page_number
    ELSE 0

\* ImageExtractor.extract_and_save_image(element, image_counter): the
\* ExtractedImage, or nothing when the data is missing or fails to decode
ExtractAndSaveImage(element, n) ==
    IF "image_base64" \notin DOMAIN element.metadata THEN <<>>
    ELSE IF element.metadata.image_base64 = "corrupt" THEN <<>>
    ELSE <<[image_id |-> ImageId(n),
            filename |-> <<ImageId(n), ".png">>,
            base64_data |-> element.metadata.image_base64,
            element_type |-> element.type,
            page_number |-> PageNumberOf(element),
            bbox |-> IF "coordinates" \in DOMAIN element.metadata
                     THEN LET coords == element.metadata.coordinates
                          IN  <<coords.top_left.x, coords.top_left.y,
                                coords.bottom_right.x, coords.bottom_right.y>>
                     ELSE None,
            associated_topic_id |-> None]>>

\* EnhancedPDFExtractor.__init__ sets no images_dir: self.images_dir raises
\* AttributeError
HasImagesDir == FALSE

\* _extract_images_with_pymupdf, one embedded image of page doc[page_num]
PymupdfImage(element, page_num, n) ==
    IF "image_base64" \notin DOMAIN element.metadata THEN <<>>
    ELSE IF ~HasImagesDir THEN <<>>
    ELSE <<[image_id |-> ImageId(n),
            filename |-> <<ImageId(n), ".png">>,
            base64_data |-> "",
            element_type |-> "Image",
            page_number |-> page_num,
            bbox |-> None,
            associated_topic_id |-> None]>>

\* mutant: the counter advances for every element that carries image data
NextImageCounterAlways(extracted, n) == n + 1

\* if extracted_image: ... image_counter += 1
NextImageCounter(extracted, n) == IF extracted # <<>> THEN n + 1 ELSE n

\* the two classifiers and the two _extract_subject on the texts of the
\* document
DocumentResults ==
    [s \in DocumentTexts |->
        [classify |-> [h \in BOOLEAN |-> Classify(s, h)],
         subject |-> ExtractSubject(s),
         quick_classify |-> QuickClassify(s),
         hybrid_subject |-> HybridExtractSubject(s)]]

\* mutant: an element that raises ends the loop
NextElementAbort(pos, raised) == IF raised THEN Len(elements) ELSE pos + 1

\* except Exception: ... continue
NextElement(pos, raised) == pos + 1

(***************************************************************************)
(* The JSON artifacts: json.dump of asdict(...) and json.load.             *)
(***************************************************************************)
JsonNull == [json |-> "null"]

JsonValue(x) == [json |-> "value", value |-> x]

JsonArray(items) == [json |-> "array", items |-> items]

JsonObject(members) == [json |-> "object", members |-> members]

JsonOptional(x) == IF x = None THEN JsonNull ELSE JsonValue(x)

\* asdict(image)
AsDictImage(image) ==
    JsonObject([image_id |-> JsonValue(image.image_id),
                filename |-> JsonValue(image.filename),
                base64_data |-> JsonValue(image.base64_data),
                element_type |-> JsonValue(image.element_type),
                page_number |-> JsonValue(image.page_number),
                bbox |-> IF image.bbox = None THEN JsonNull
                         ELSE JsonArray([k \in 1..Len(image.bbox) |->
                                            JsonValue(image.bbox[k])]),
                associated_topic_id |-> JsonOptional(image.associated_topic_id)])

\* mutant: the topic's dict is dumped without converting its images, and
\* default=str writes each of them as a string
AsDictTopicShallow(topic, image_list) ==
    JsonObject([question_type |-> JsonValue(topic.question_type),
                content |-> JsonValue(topic.content),
                options |-> JsonArray([k \in 1..Len(topic.options) |->
                                          JsonValue(topic.options[k])]),
                correct_answer |-> JsonOptional(topic.correct_answer),
                rationale |-> JsonOptional(topic.rationale),
                subject |-> JsonOptional(topic.subject),
                page_number |-> JsonValue(topic.page_number),
                confidence_score |-> JsonValue(topic.confidence_score),
                images |-> JsonArray([k \in 1..Len(topic.images) |->
                              JsonValue(<<"ExtractedImage", topic.images[k]>>)]),
                topic_id |-> JsonOptional(topic.topic_id)])

\* asdict(topic): the images of the topic are converted with it
AsDictTopic(topic, image_list) ==
    JsonObject([question_type |-> JsonValue(topic.question_type),
                content |-> JsonValue(topic.content),
                options |-> JsonArray([k \in 1..Len(topic.options) |->
                                          JsonValue(topic.options[k])]),
                correct_answer |-> JsonOptional(topic.correct_answer),
                rationale |-> JsonOptional(topic.rationale),
                subject |-> JsonOptional(topic.subject),
                page_number |-> JsonValue(topic.page_number),
                confidence_score |-> JsonValue(topic.confidence_score),
                images |-> JsonArray([k \in 1..Len(topic.images) |->
                              AsDictImage(image_list[topic.images[k]])]),
                topic_id |-> JsonOptional(topic.topic_id)])

\* json.load
RECURSIVE JsonLoad(_)
JsonLoad(j) ==
    CASE j.json = "null" -> None
      [] j.json = "value" -> j.value
      [] j.json = "array" -> [k \in 1..Len(j.items) |-> JsonLoad(j.items[k])]
      [] j.json = "object" -> [key \in DOMAIN j.members |-> JsonLoad(j.members[key])]

(***************************************************************************)
(* main() and extract_content_with_images().                               *)
(***************************************************************************)
\* mutant: the document is taken to exist
PathExistsAlways == TRUE

\* Path(pdf_path).exists()
PathExists == pdf_exists

\* main() up to the call of extract_content_with_images
MainStart ==
    /\ pc = "main"
    /\ IF ~dependencies \/ ~PathExists
       THEN /\ outcome' = <<[returns |-> 1]>>
            /\ pc' = "exit"
       ELSE /\ pc' = "call"
            /\ UNCHANGED outcome
    /\ UNCHANGED <<images, topics, image_counter, topic_counter, assoc_topic,
                   id_writes, images_writes>>
    /\ UNCHANGED <<entry_point, dependencies, pdf_exists, api_key, elements,
                   element_pos, image_source, topic_source, artifacts, loaded>>
    /\ UNCHANGED <<varsB, varsC, varsD, varsE, varsG, varsH>>

\* extract_content_with_images(pdf_path) is entered
ExtractContentStart ==
    /\ pc = "call"
    /\ IF ~PathExists
       THEN /\ outcome' = <<[raises |-> "FileNotFoundError"]>>
            /\ pc' = "exit"
       ELSE /\ pc' = "extract"
            /\ UNCHANGED outcome
    /\ UNCHANGED <<images, topics, image_counter, topic_counter, assoc_topic,
                   id_writes, images_writes>>
    /\ UNCHANGED <<entry_point, dependencies, pdf_exists, api_key, elements,
                   element_pos, image_source, topic_source, artifacts, loaded>>
    /\ UNCHANGED <<varsB, varsC, varsD, varsE, varsG, varsH>>

\* one element of the image loop: of _extract_with_api with an API key, of
\* _extract_images_with_pymupdf (pages counted from 0) without
ExtractElementImage ==
    /\ pc = "extract"
    /\ element_pos < Len(elements)
    /\ LET element == elements[element_pos + 1]
           extracted == IF api_key
                        THEN ExtractAndSaveImage(element, image_counter)
                        ELSE PymupdfImage(element, element.page - 1, image_counter)
       IN  /\ images' = images \o extracted
           /\ id_writes' = id_writes \o [k \in 1..Len(extracted) |-> 0]
           /\ image_source' = image_source \o [k \in 1..Len(extracted) |-> element_pos + 1]
           /\ image_counter' =
                 IF "image_base64" \in DOMAIN element.metadata
                 THEN NextImageCounter(extracted, image_counter)
                 ELSE image_counter
    /\ element_pos' = element_pos + 1
    /\ UNCHANGED <<pc, topics, topic_counter, assoc_topic, images_writes>>
    /\ UNCHANGED <<entry_point, dependencies, pdf_exists, api_key, elements,
                   topic_source, artifacts, loaded, outcome>>
    /\ UNCHANGED <<varsB, varsC, varsD, varsE, varsG, varsH>>

\* the image loop is over: (elements, images) is returned
ExtractImagesReturn ==
    /\ pc = "extract"
    /\ element_pos = Len(elements)
    /\ pc' = "topics"
    /\ element_pos' = 0
    /\ UNCHANGED <<images, topics, image_counter, topic_counter, assoc_topic,
                   id_writes, images_writes>>
    /\ UNCHANGED <<entry_point, dependencies, pdf_exists, api_key, elements,
                   image_source, topic_source, artifacts, loaded, outcome>>
    /\ UNCHANGED <<varsB, varsC, varsD, varsE, varsG, varsH>>

\* _elements_to_topics, one element of the loop, with its try and except
ConvertElement ==
    /\ pc = "topics"
    /\ element_pos < Len(elements)
    /\ LET element == elements[element_pos + 1]
           page_num == PageNumberOf(element)
           has_images == \E k \in 1..Len(images) : images[k].page_number = page_num
       IN  IF Len(Strip(element.text)) < MinElementLen
           THEN /\ element_pos' = element_pos + 1
                /\ UNCHANGED <<topics, topic_counter, images_writes, topic_source>>
           ELSE IF element.raises
           THEN /\ element_pos' = NextElement(element_pos, TRUE)
                /\ UNCHANGED <<topics, topic_counter, images_writes, topic_source>>
           ELSE /\ topics' = Append(topics,
                       ClassifiedQuestionBlock(topic_counter, element.text, page_num,
                           DocumentResults[element.text].classify[has_images],
                           DocumentResults[element.text].subject))
                /\ topic_counter' = topic_counter + 1
                /\ images_writes' = Append(images_writes, 0)
                /\ topic_source' = Append(topic_source, element_pos + 1)
                /\ element_pos' = NextElement(element_pos, FALSE)
    /\ UNCHANGED <<pc, images, image_counter, assoc_topic, id_writes>>
    /\ UNCHANGED <<entry_point, dependencies, pdf_exists, api_key, elements,
                   image_source, artifacts, loaded, outcome>>
    /\ UNCHANGED <<varsB, varsC, varsD, varsE, varsG, varsH>>

\* _elements_to_topics returns topics; associate_images_with_topics is entered
ConvertReturn ==
    /\ pc = "topics"
    /\ element_pos = Len(elements)
    /\ pc' = "associate"
    /\ assoc_topic' = 1
    /\ UNCHANGED <<images, topics, image_counter, topic_counter, id_writes,
                   images_writes>>
    /\ UNCHANGED varsF
    /\ UNCHANGED <<varsB, varsC, varsD, varsE, varsG, varsH>>

\* quick_start_extraction.py, _enhance_with_pymupdf: one element of the loop,
\* with its try and except
EnhanceElement ==
    /\ pc = "enhance"
    /\ element_pos < Len(elements)
    /\ LET element == elements[element_pos + 1]
           classification == DocumentResults[element.text].quick_classify
       IN  IF Len(Strip(element.text)) < MinElementLen
           THEN /\ element_pos' = element_pos + 1
                /\ UNCHANGED <<topics, topic_source>>
           ELSE IF element.raises
           THEN /\ element_pos' = NextElement(element_pos, TRUE)
                /\ UNCHANGED <<topics, topic_source>>
           ELSE /\ topics' = Append(topics,
                       [question_type |-> classification.question_type,
                        content |-> element.text,
                        options |-> classification.extracted_options,
                        correct_answer |-> classification.correct_answer,
                        rationale |-> classification.rationale,
                        subject |-> DocumentResults[element.text].hybrid_subject,
                        page_number |-> PageNumberOf(element),
                        confidence_score |-> classification.confidence])
                /\ topic_source' = Append(topic_source, element_pos + 1)
                /\ element_pos' = NextElement(element_pos, FALSE)
    /\ UNCHANGED <<pc, images, image_counter, topic_counter, assoc_topic,
                   id_writes, images_writes>>
    /\ UNCHANGED <<entry_point, dependencies, pdf_exists, api_key, elements,
                   image_source, artifacts, loaded, outcome>>
    /\ UNCHANGED <<varsB, varsC, varsD, varsE, varsG, varsH>>

\* _enhance_with_pymupdf returns enhanced_topics
EnhanceReturn ==
    /\ pc = "enhance"
    /\ element_pos = Len(elements)
    /\ outcome' = <<[returns |-> "enhanced_topics"]>>
    /\ pc' = "exit"
    /\ UNCHANGED <<images, topics, image_counter, topic_counter, assoc_topic,
                   id_writes, images_writes>>
    /\ UNCHANGED <<entry_point, dependencies, pdf_exists, api_key, elements,
                   element_pos, image_source, topic_source, artifacts, loaded>>
    /\ UNCHANGED <<varsB, varsC, varsD, varsE, varsG, varsH>>

\* extract_content_with_images returns (topics, images) to a caller other
\* than main
ExtractContentReturn ==
    /\ pc = "done"
    /\ entry_point = "call"
    /\ outcome' = <<[returns |-> "topics, images"]>>
    /\ pc' = "exit"
    /\ UNCHANGED <<images, topics, image_counter, topic_counter, assoc_topic,
                   id_writes, images_writes>>
    /\ UNCHANGED <<entry_point, dependencies, pdf_exists, api_key, elements,
                   element_pos, image_source, topic_source, artifacts, loaded>>
    /\ UNCHANGED <<varsB, varsC, varsD, varsE, varsG, varsH>>

\* main() after extract_content_with_images: the report, the three JSON
\* files, and the summary, which reads validation_report['total_topics']
\* (a KeyError on the error marker, caught by main's except)
MainSave ==
    /\ pc = "done"
    /\ entry_point = "main"
    /\ \E style \in SumStyles :
          LET report == EnhancedValidation(topics, images, style)
          IN  /\ validation_report' = <<report>>
              /\ artifacts' =
                    [extraction_results_with_images |->
                         JsonArray([k \in 1..Len(topics) |-> AsDictTopic(topics[k], images)]),
                     extracted_images_metadata |->
                         JsonArray([k \in 1..Len(images) |-> AsDictImage(images[k])]),
                     validation_report |-> JsonObject(report)]
              /\ outcome' = IF "total_topics" \in DOMAIN report
                            THEN <<[returns |-> 0]>> ELSE <<[returns |-> 1]>>
    /\ pc' = "exit"
    /\ UNCHANGED <<images, topics, image_counter, topic_counter, assoc_topic,
                   id_writes, images_writes>>
    /\ UNCHANGED <<entry_point, dependencies, pdf_exists, api_key, elements,
                   element_pos, image_source, topic_source, loaded>>
    /\ UNCHANGED <<v_topics, v_images, quick_report>>
    /\ UNCHANGED <<varsB, varsC, varsD, varsG, varsH>>

\* a reader loads the topics file and the images file
LoadArtifacts ==
    /\ pc = "exit"
    /\ artifacts # <<>>
    /\ loaded = <<>>
    /\ loaded' = [topics |-> JsonLoad(artifacts.extraction_results_with_images),
                  images |-> JsonLoad(artifacts.extracted_images_metadata)]
    /\ UNCHANGED varsA
    /\ UNCHANGED <<entry_point, dependencies, pdf_exists, api_key, elements,
                   element_pos, image_source, topic_source, artifacts, outcome>>
    /\ UNCHANGED <<varsB, varsC, varsD, varsE, varsG, varsH>>

\* main() is run, or extract_content_with_images is called, on a PDF that
\* exists or not, with or without an API key, or _enhance_with_pymupdf is
\* called on the elements of a PDF; a missing PDF has no elements
InitMain ==
    /\ pc \in {"main", "call", "enhance"}
    /\ entry_point = pc
    /\ dependencies \in (IF pc = "main" THEN BOOLEAN ELSE {TRUE})
    /\ pdf_exists \in (IF pc = "enhance" THEN {TRUE} ELSE BOOLEAN)
    /\ api_key \in (IF pc = "enhance" THEN {FALSE} ELSE BOOLEAN)
    /\ elements \in (IF pdf_exists /\ dependencies THEN ElementLists ELSE {<<>>})
    /\ element_pos = 0
    /\ image_source = <<>>
    /\ topic_source = <<>>
    /\ artifacts = <<>>
    /\ loaded = <<>>
    /\ outcome = <<>>
    /\ images = <<>>
    /\ topics = <<>>
    /\ image_counter = 1
    /\ topic_counter = 1
    /\ assoc_topic = 0
    /\ id_writes = <<>>
    /\ images_writes = <<>>
    /\ validation_report = <<>>
    /\ quick_report = <<>>
    /\ k_calls = {}
    /\ quick_classified = <<>>
    /\ subject = <<>>
    /\ hybrid_subject = <<>>
    /\ k_topics = <<>>
    /\ dpc = "idle"
    /\ doc = <<>>
    /\ page_i = 0
    /\ detected_regions = <<>>
    /\ region_files = <<>>
    /\ page_log = <<>>
    /\ failure = "none"
    /\ apc = "idle"
    /\ results_regions = <<>>
    /\ region_pos = 0
    /\ likely_images = <<>>
    /\ likely_text = <<>>
    /\ errors = <<>>
    /\ page_stats = <<>>
    /\ k_text = <<>>
    /\ classified = <<>>
    /\ k_images = <<>>
    /\ v_topics = <<>>
    /\ v_images = <<>>
    /\ filtered_dir = {}
    /\ manifest = <<>>
    /\ cli_pc = "idle"
    /\ pages_arg = <<>>
    /\ pdf_pages = <<>>
    /\ page_arg = <<>>
    /\ page_range = <<>>
    /\ pdf_doc = <<>>
    /\ loop_page = 0
    /\ direct_extraction = <<>>
    /\ region_records = <<>>
    /\ pages_done = <<>>

NextMain ==
    \/ MainStart
    \/ ExtractContentStart
    \/ ExtractElementImage
    \/ ExtractImagesReturn
    \/ ConvertElement
    \/ ConvertReturn
    \/ AssociateTopic
    \/ AssociateReturn
    \/ EnhanceElement
    \/ EnhanceReturn
    \/ ExtractContentReturn
    \/ MainSave
    \/ LoadArtifacts

SpecMain == InitMain /\ [][NextMain]_vars

(***************************************************************************)
(* Part G: the page range from extract_images_cli.py to                    *)
(* extract_images_comprehensive.py: parse_page_range, the --pages argument *)
(* of the subprocess, main() of the comprehensive script, and the two      *)
(* loops over the pages (specification SpecRange).                         *)
(***************************************************************************)
MaxRangeEnd == 11
MaxPdfPages == 10
MaxPdfSeed == 2

DigitChars == <<"0", "1", "2", "3", "4", "5", "6", "7", "8", "9">>

\* f"{n}" of an int n >= 0
RECURSIVE FormatInt(_)
FormatInt(n) ==
    IF n < 10 THEN <<DigitChars[n + 1]>>
    ELSE Append(FormatInt(n \div 10), DigitChars[(n % 10) + 1])

\* int(s) of a string of decimal digits
RECURSIVE IntOfDigits(_)
IntOfDigits(s) ==
    IF s = <<>> THEN 0
    ELSE 10 * IntOfDigits(SubSeq(s, 1, Len(s) - 1))
            + (CHOOSE d \in 0..9 : DigitChars[d + 1] = s[Len(s)])

\* s.split('-')
RECURSIVE SplitDash(_)
SplitDash(s) ==
    LET hits == {k \in 1..Len(s) : s[k] = "-"}
    IN  IF hits = {} THEN <<s>>
        ELSE <<SubSeq(s, 1, Least(hits) - 1)>>
                \o SplitDash(SubSeq(s, Least(hits) + 1, Len(s)))

\* start, end = map(int, s.split('-')): ValueError unless there are two
\* parts, each a number
StartEnd(s) ==
    LET parts == SplitDash(s)
    IN  IF /\ Len(parts) = 2
           /\ \A k \in 1..2 : parts[k] # <<>> /\ \A c \in Range(parts[k]) : c \in Digits
        THEN Returns(<<IntOfDigits(parts[1]), IntOfDigits(parts[2])>>)
        ELSE Raises

\* parse_page_range(page_range)
ParsePageRange(s) ==
    IF "-" \in Range(s)
    THEN LET call == StartEnd(s)
         IN  IF call.raised THEN Raises
             ELSE Returns([k \in 1..(call.value[2] - call.value[1] + 1) |->
                              call.value[1] + k - 1])
    ELSE IF s # <<>> /\ \A c \in Range(s) : c \in Digits
         THEN Returns(<<IntOfDigits(s)>>)
         ELSE Raises

\* f"{first}-{last}"
PageArg(first, last) == FormatInt(first) \o <<"-">> \o FormatInt(last)

\* the --pdf-pages arguments: 'a' and 'a-b' with 1 <= a <= b
PagesArgs ==
    {FormatInt(a) : a \in 1..MaxRangeEnd}
        \cup {PageArg(p[1], p[2]) :
                 p \in {q \in (1..MaxRangeEnd) \X (1..MaxRangeEnd) : q[1] <= q[2]}}

\* the documents: n pages, page j of the document with seed s holds
\* (s + j) % 3 embedded images and (s + j) % 2 detectable regions
PdfDocs ==
    {[j \in 1..n |-> [images |-> (s + j) % 3, regions |-> (s + j) % 2]] :
        n \in 1..MaxPdfPages, s \in 0..MaxPdfSeed}

\* mutant: the first page is passed on as it is
PageRangeUnshifted(start, end) == <<start, end>>

\* page_range = (start - 1, end)  # Convert to 0-based indexing
PageRange(start, end) == <<start - 1, end>>

\* convert_from_path(first_page, last_page): the pages first_page..last_page
\* of the document, by their 1-based index
ConvertFromPath(first_page, last_page) ==
    [k \in 1..(last_page - first_page + 1) |-> first_page + k - 1]

\* extract_images_cli.py main(): pdf_pages = parse_page_range(args.pdf_pages)
CliParsePageRange ==
    /\ cli_pc = "cli"
    /\ LET call == ParsePageRange(pages_arg)
       IN  IF call.raised
           THEN /\ cli_pc' = "failed"
                /\ UNCHANGED pdf_pages
           ELSE /\ pdf_pages' = call.value
                /\ cli_pc' = "extract_images_from_pdf"
    /\ UNCHANGED <<pages_arg, page_arg, page_range, pdf_doc, loop_page,
                   direct_extraction, region_records, pages_done>>
    /\ UNCHANGED <<varsA, varsB, varsC, varsD, varsE, varsF, varsG>>

\* extract_images_from_pdf: the --pages argument of the subprocess
ExtractImagesFromPdf ==
    /\ cli_pc = "extract_images_from_pdf"
    /\ page_arg' = IF Len(pdf_pages) = 1
                   THEN PageArg(pdf_pages[1], pdf_pages[1])
                   ELSE PageArg(Least(Range(pdf_pages)), Greatest(Range(pdf_pages)))
    /\ cli_pc' = "main"
    /\ UNCHANGED <<pages_arg, pdf_pages, page_range, pdf_doc, loop_page,
                   direct_extraction, region_records, pages_done>>
    /\ UNCHANGED <<varsA, varsB, varsC, varsD, varsE, varsF, varsG>>

\* extract_images_comprehensive.py main(): args.pages becomes page_range
ComprehensiveMain ==
    /\ cli_pc = "main"
    /\ LET call == StartEnd(page_arg)
       IN  IF call.raised
           THEN /\ cli_pc' = "failed"
                /\ UNCHANGED <<page_range, loop_page>>
           ELSE /\ page_range' = PageRange(call.value[1], call.value[2])
                /\ loop_page' = page_range'[1]
                /\ cli_pc' = "direct"
    /\ UNCHANGED <<pages_arg, pdf_pages, page_arg, pdf_doc, direct_extraction,
                   region_records, pages_done>>
    /\ UNCHANGED <<varsA, varsB, varsC, varsD, varsE, varsF, varsG>>

\* extract_direct_images, one page of
\* range(start_page, min(end_page, len(self.doc)))
ExtractDirectPage ==
    /\ cli_pc = "direct"
    /\ loop_page < Min(page_range[2], Len(pdf_doc))
    /\ LET page_num == loop_page
           page == pdf_doc[page_num + 1]
       IN  /\ direct_extraction' = direct_extraction \o
                 [img_index \in 1..page.images |->
                     [source |-> "direct_extraction", page |-> page_num + 1,
                      image_index |-> img_index]]
           /\ pages_done' = Append(pages_done, <<"direct", page_num + 1>>)
    /\ loop_page' = loop_page + 1
    /\ UNCHANGED <<cli_pc, pages_arg, pdf_pages, page_arg, page_range, pdf_doc,
                   region_records>>
    /\ UNCHANGED <<varsA, varsB, varsC, varsD, varsE, varsF, varsG>>

\* extract_direct_images returns; detect_image_regions is entered
ExtractDirectReturn ==
    /\ cli_pc = "direct"
    /\ ~(loop_page < Min(page_range[2], Len(pdf_doc)))
    /\ cli_pc' = "regions"
    /\ loop_page' = 0
    /\ UNCHANGED <<pages_arg, pdf_pages, page_arg, page_range, pdf_doc,
                   direct_extraction, region_records, pages_done>>
    /\ UNCHANGED <<varsA, varsB, varsC, varsD, varsE, varsF, varsG>>

\* detect_image_regions, one pass of 'for i, page_img in enumerate(pages)'
DetectRegionsPage ==
    /\ cli_pc = "regions"
    /\ LET start_page == page_range[1]
           pages == ConvertFromPath(start_page + 1, Min(page_range[2], Len(pdf_doc)))
           i == loop_page
       IN  /\ i < Len(pages)
           /\ LET page_num == start_page + i
                  page_img == pdf_doc[pages[i + 1]]
              IN  /\ region_records' = region_records \o
                        [region_idx \in 1..page_img.regions |->
                            [source |-> "detected_region", page |-> page_num + 1,
                             region_index |-> region_idx]]
                  /\ pages_done' = Append(pages_done, <<"regions", pages[i + 1]>>)
    /\ loop_page' = loop_page + 1
    /\ UNCHANGED <<cli_pc, pages_arg, pdf_pages, page_arg, page_range, pdf_doc,
                   direct_extraction>>
    /\ UNCHANGED <<varsA, varsB, varsC, varsD, varsE, varsF, varsG>>

\* detect_image_regions returns
DetectRegionsReturn ==
    /\ cli_pc = "regions"
    /\ ~(loop_page < Len(ConvertFromPath(page_range[1] + 1,
                                         Min(page_range[2], Len(pdf_doc)))))
    /\ cli_pc' = "done"
    /\ UNCHANGED <<pages_arg, pdf_pages, page_arg, page_range, pdf_doc, loop_page,
                   direct_extraction, region_records, pages_done>>
    /\ UNCHANGED <<varsA, varsB, varsC, varsD, varsE, varsF, varsG>>

\* the CLI is run with a page argument on a document
InitRange ==
    /\ cli_pc = "cli"
    /\ pages_arg \in PagesArgs
    /\ pdf_doc \in PdfDocs
    /\ pdf_pages = <<>>
    /\ page_arg = <<>>
    /\ page_range = <<>>
    /\ loop_page = 0
    /\ direct_extraction = <<>>
    /\ region_records = <<>>
    /\ pages_done = <<>>
    /\ validation_report = <<>>
    /\ quick_report = <<>>
    /\ k_calls = {}
    /\ quick_classified = <<>>
    /\ subject = <<>>
    /\ hybrid_subject = <<>>
    /\ k_topics = <<>>
    /\ pc = "idle"
    /\ images = <<>>
    /\ topics = <<>>
    /\ image_counter = 1
    /\ topic_counter = 1
    /\ assoc_topic = 0
    /\ id_writes = <<>>
    /\ images_writes = <<>>
    /\ dpc = "idle"
    /\ doc = <<>>
    /\ page_i = 0
    /\ detected_regions = <<>>
    /\ region_files = <<>>
    /\ page_log = <<>>
    /\ failure = "none"
    /\ apc = "idle"
    /\ results_regions = <<>>
    /\ region_pos = 0
    /\ likely_images = <<>>
    /\ likely_text = <<>>
    /\ errors = <<>>
    /\ page_stats = <<>>
    /\ k_text = <<>>
    /\ classified = <<>>
    /\ k_images = <<>>
    /\ entry_point = "none"
    /\ dependencies = TRUE
    /\ pdf_exists = TRUE
    /\ api_key = TRUE
    /\ elements = <<>>
    /\ element_pos = 0
    /\ image_source = <<>>
    /\ topic_source = <<>>
    /\ artifacts = <<>>
    /\ loaded = <<>>
    /\ outcome = <<>>
    /\ filtered_dir = {}
    /\ manifest = <<>>
    /\ v_topics = <<>>
    /\ v_images = <<>>

NextRange ==
    \/ CliParsePageRange
    \/ ExtractImagesFromPdf
    \/ ComprehensiveMain
    \/ ExtractDirectPage
    \/ ExtractDirectReturn
    \/ DetectRegionsPage
    \/ DetectRegionsReturn

SpecRange == InitRange /\ [][NextRange]_vars

(***************************************************************************)
(* Claims about the associator (checked under SpecAssoc).                  *)
(***************************************************************************)
\* the topics the outer loop of the associator has finished
Processed == IF pc \in {"associate", "done"} THEN 1..(assoc_topic - 1) ELSE {}

\* image number k is listed in the images field of topic number t
Listed(k, t) == \E j \in 1..Len(topics[t].images) : topics[t].images[j] = k

\* the texts that hold at least one visual keyword, whatever the case of the
\* letters and wherever in a word the keyword stands
HoldsVisualKeyword ==
    [s \in ElementTexts |->
        \E w \in 1..Len(visual_keywords) :
            \E off \in 0..(Len(s) - Len(visual_keywords[w])) :
                \A j \in 1..Len(visual_keywords[w]) :
                    LowerChar(s[off + j]) = visual_keywords[w][j]]

\* the association rule as the specification words it
RuleHolds(k, t) ==
    LET d == Abs(images[k].page_number - topics[t].page_number)
    IN  \/ d = 0
        \/ d = 1 /\ HoldsVisualKeyword[topics[t].content]

\* C1: after the associator has handled topic T, an image I is in T.images
\* if and only if it is on T's page, or on an adjacent page while T's text
\* holds a visual keyword; an image more than one page away is never listed.
C1_AssociationRule ==
    \A t \in Processed : \A k \in 1..Len(images) :
        /\ Listed(k, t) <=> RuleHolds(k, t)
        /\ Abs(images[k].page_number - topics[t].page_number) > 1 => ~Listed(k, t)

C1_Witness ==
    /\ pc = "done"
    /\ \E t \in 1..Len(topics), k \in 1..Len(images) :
          /\ PageDistance(images[k], topics[t]) = 1
          /\ topics[t].content = TextRash
          /\ Listed(k, t)
    /\ \E t \in 1..Len(topics), k \in 1..Len(images) :
          /\ PageDistance(images[k], topics[t]) = 1
          /\ topics[t].content = TextPlain
          /\ ~Listed(k, t)
    /\ \E t \in 1..Len(topics), k \in 1..Len(images) :
          /\ PageDistance(images[k], topics[t]) = 2
          /\ topics[t].content = TextRash
          /\ ~Listed(k, t)

\* C2: bidirectional consistency: once the associator has returned, every
\* image whose associated_topic_id is set names a topic of the list, and that
\* topic lists the image.
C2_Bidirectional ==
    pc = "done" =>
        \A k \in 1..Len(images) :
            images[k].associated_topic_id # None =>
                \E t \in 1..Len(topics) :
                    /\ topics[t].topic_id = images[k].associated_topic_id
                    /\ Listed(k, t)

C2_Witness ==
    /\ pc = "done"
    /\ \E k \in 1..Len(images), t \in 1..Len(topics) :
          /\ images[k].associated_topic_id = topics[t].topic_id
          /\ PageDistance(images[k], topics[t]) = 1
    /\ \E k \in 1..Len(images) : images[k].associated_topic_id = None

\* the topics whose rule image number k satisfies
Matching(k) == {t \in 1..Len(topics) : RuleHolds(k, t)}

\* C3: an image that satisfies the rule for several topics is listed by every
\* one of them, and its associated_topic_id is the id of the last of them in
\* the order of the topics list.
C3_LastTopicWins ==
    pc = "done" =>
        \A k \in 1..Len(images) :
            /\ \A t \in Matching(k) : Listed(k, t)
            /\ Matching(k) # {} =>
                  LET last == CHOOSE t \in Matching(k) : \A u \in Matching(k) : u <= t
                  IN  images[k].associated_topic_id = topics[last].topic_id
            /\ Matching(k) = {} => images[k].associated_topic_id = None

C3_Witness ==
    /\ pc = "done"
    /\ \E k \in 1..Len(images) :
          /\ Cardinality(Matching(k)) >= 2
          /\ images[k].associated_topic_id = topics[Len(topics)].topic_id

\* every field of an image but associated_topic_id
OtherFields(image) ==
    <<image.image_id, image.filename, image.element_type, image.page_number, image.bbox>>

\* a step of the associator writes no field of an image but associated_topic_id,
\* and that one at most once
OnlyBackRefWritten ==
    pc = "associate" =>
        \A k \in 1..Len(images) :
            /\ OtherFields(images'[k]) = OtherFields(images[k])
            /\ id_writes'[k] \in {id_writes[k], id_writes[k] + 1}

\* C4 as stated: during one pass the associated_topic_id of each image is
\* assigned at most one time.
C4_AssignedAtMostOnce ==
    \A k \in 1..Len(images) : id_writes[k] <= 1

\* C4 as amended: during one pass the associated_topic_id of an image is
\* assigned once for every topic whose rule the image satisfies (so as many
\* times as topics match, at most once per topic), and no other field of the
\* image is written.
C4_AssignedOncePerMatchingTopic ==
    /\ [](\A k \in 1..Len(images) :
            id_writes[k] = Cardinality(Matching(k) \cap Processed))
    /\ [][OnlyBackRefWritten]_vars

C4_Witness ==
    /\ pc = "done"
    /\ \E k \in 1..Len(images) :
          /\ id_writes[k] >= 2
          /\ \E t \in Matching(k) : images[k].page_number # topics[t].page_number

\* before the associator runs no topic lists an image and no image names a topic
NothingLinkedBefore ==
    pc \in {"extract", "topics"} =>
        /\ \A t \in 1..Len(topics) :
              topics[t].images = <<>> /\ images_writes[t] = 0
        /\ \A k \in 1..Len(images) : images[k].associated_topic_id = None

\* the associator assigns each topic's images field once, and all of them
AssignedOnceEach ==
    /\ \A t \in 1..Len(topics) :
          images_writes[t] = (IF t \in Processed THEN 1 ELSE 0)
    /\ pc = "done" => Processed = 1..Len(topics)

\* once the associator runs, no image and no topic is added
ListsFrozen ==
    pc \in {"associate", "done"} =>
        /\ Len(images') = Len(images)
        /\ Len(topics') = Len(topics)

\* C5: association starts only after every image has been extracted and every
\* topic created; until then no topic lists an image and no back-reference is
\* set; each topic's images field is then assigned exactly once.
C5_AssociationAfterExtraction ==
    /\ [](NothingLinkedBefore /\ AssignedOnceEach)
    /\ [][ListsFrozen]_vars

C5_Witness ==
    /\ pc = "done"
    /\ Len(topics) >= 2
    /\ Len(images) >= 2
    /\ \A t \in 1..Len(topics) : images_writes[t] = 1 /\ topics[t].images # <<>>

(***************************************************************************)
(* Claims about the region detector (checked under SpecDetect).            *)
(***************************************************************************)
\* region r is the bounding rectangle of contour c
SameBox(r, c) == r.x = c.x /\ r.y = c.y /\ r.w = c.w /\ r.h = c.h

\* C6: for every page the list _detect_image_like_regions returns has at most
\* 10 entries, is sorted by confidence in non-increasing order, and holds the
\* highest-confidence survivors: no survivor that was cut off has a strictly
\* higher confidence than a returned one.
C6_TopTenSorted ==
    \A e \in 1..Len(page_log) :
        LET r == page_log[e].image_regions
            s == page_log[e].survivors
        IN  /\ Len(r) <= 10
            /\ Len(r) = Min(10, Len(s))
            /\ \A i \in 1..(Len(r) - 1) : ConfGE(r[i], r[i + 1])
            /\ Range(r) \subseteq Range(s)
            /\ \A c \in Range(s) \ Range(r) : \A i \in 1..Len(r) : ~ConfGT(c, r[i])

C6_Witness ==
    \E e \in 1..Len(page_log) :
        LET r == page_log[e].image_regions
            s == page_log[e].survivors
        IN  /\ Len(s) > 10
            /\ \E j \in 1..(Len(s) - 1) : ConfGT(s[j + 1], s[j])
            /\ \E c \in Range(s) \ Range(r) : ConfGT(r[Len(r)], c)
            /\ \E i \in 1..(Len(r) - 1) : ~ConfGT(r[i], r[i + 1])

\* the region filter as the specification words it
SurvivesAsSpecified(c) ==
    /\ c.w >= 100
    /\ c.h >= 100
    /\ Max(c.w, c.h) <= 10 * Min(c.w, c.h)
    /\ 10 * c.area2 >= 3 * (2 * c.w * c.h)

\* C7: a contour with bounding rectangle (w, h) and area a survives the filter
\* if and only if w >= 100, h >= 100, max(w/h, h/w) <= 10 and a/(w*h) >= 0.3;
\* the boundary values are accepted.
C7_FilterIff ==
    \A e \in 1..Len(page_log) :
        \A k \in 1..Len(page_log[e].contours) :
            LET c == page_log[e].contours[k]
            IN  (\E r \in Range(page_log[e].survivors) : SameBox(r, c))
                    <=> SurvivesAsSpecified(c)

C7_Witness ==
    \E e \in 1..Len(page_log) :
        LET cs == Range(page_log[e].contours)
            kept(c) == \E r \in Range(page_log[e].survivors) : SameBox(r, c)
        IN  /\ \E c \in cs : c.w = 100 /\ c.h = 100 /\ c.area2 = 6000 /\ kept(c)
            /\ \E c \in cs : c.w = 1000 /\ c.h = 100 /\ kept(c)
            /\ \E c \in cs : c.w = 100 /\ c.h = 1000 /\ kept(c)
            /\ \E c \in cs : c.w = 99 /\ c.h = 100 /\ ~kept(c)
            /\ \E c \in cs : c.w = 1001 /\ c.h = 100 /\ ~kept(c)
            /\ \E c \in cs : c.w = 100 /\ c.h = 100 /\ c.area2 = 5999 /\ ~kept(c)

\* C8: every region detect_image_regions records has confidence
\* contour_area / (w*h) within [0.3, 1], and no contour with fill ratio below
\* 0.3 is returned by the detector or recorded.
C8_StoredConfidence ==
    /\ Range(detected_regions) \subseteq Range(region_files)
    /\ \A k \in 1..Len(region_files) :
          LET r == region_files[k]
          IN  /\ 10 * r.conf_num >= 3 * r.conf_den
              /\ r.conf_num <= r.conf_den
              /\ \E c \in Range(page_log[r.page].contours) :
                    /\ r.bbox = <<c.x, c.y, c.x + c.w, c.y + c.h>>
                    /\ r.conf_num = c.area2
                    /\ r.conf_den = 2 * c.w * c.h
    /\ \A e \in 1..Len(page_log) :
          \A c \in Range(page_log[e].contours) :
              10 * c.area2 < 3 * (2 * c.w * c.h) =>
                  /\ ~\E r \in Range(page_log[e].image_regions) : SameBox(r, c)
                  /\ ~\E k \in 1..Len(region_files) :
                        /\ region_files[k].page = e
                        /\ region_files[k].bbox = <<c.x, c.y, c.x + c.w, c.y + c.h>>

C8_Witness ==
    /\ dpc = "done"
    /\ \E k \in 1..Len(detected_regions) :
          10 * detected_regions[k].conf_num = 3 * detected_regions[k].conf_den
    /\ \E e \in 1..Len(page_log) :
          \E c \in Range(page_log[e].contours) :
              /\ c.w = 100 /\ c.h = 100 /\ c.area2 = 5999
              /\ Len(page_log[e].survivors) < 10

\* how deep rectangle r reaches into the zeroed rectangle m, in pixels
OverlapDepth(r, m) ==
    Min(Max(0, Min(r.x + r.w, m.x2) - Max(r.x, m.x1)),
        Max(0, Min(r.y + r.h, m.y2) - Max(r.y, m.y1)))

\* C9: text suppression: no returned region overlaps a text box expanded by
\* the 5 px padding by more than the padding margin.
C9_TextSuppression ==
    \A e \in 1..Len(page_log) :
        \A r \in Range(page_log[e].image_regions) :
            \A tb \in Range(page_log[e].text_boxes) :
                OverlapDepth(r, PaddedBox(doc[e].shape, tb)) <= 5

\* C10: when the OCR call raises, _detect_text_regions returns an empty list,
\* the page goes through region detection with an all-pass mask, and the
\* pages after it are processed too: the failure aborts neither the page nor
\* the batch.
C10_OcrFailureTolerated ==
    /\ failure # "ocr"
    /\ dpc = "raised" => failure = "save"
    /\ dpc # "raised" => page_i = Len(page_log)
    /\ dpc = "done" => Len(page_log) = Len(doc)
    /\ \A e \in 1..Len(page_log) :
          (doc[e].ocr.raises <=> page_log[e].ocr_raised)
          /\ (page_log[e].ocr_raised =>
                /\ page_log[e].text_boxes = <<>>
                /\ page_log[e].text_mask = <<>>
                /\ page_log[e].contours = doc[e].ink
                /\ Len(page_log[e].image_regions) =
                      Min(10, Cardinality({k \in 1..Len(doc[e].ink) :
                                              SurvivesAsSpecified(doc[e].ink[k])})))

C10_Witness ==
    /\ dpc = "done"
    /\ Len(page_log) = 2
    /\ page_log[1].ocr_raised
    /\ page_log[1].image_regions # <<>>
    /\ ~page_log[2].ocr_raised
    /\ \E k \in 1..Len(detected_regions) : detected_regions[k].page = 2

\* C24: a region whose crop or save fails is skipped and detection goes on
\* with the remaining regions and pages: the failure never ends
\* detect_image_regions, and so extract_all_images, with an exception
C24_SaveFailureTolerated ==
    /\ failure = "save" => dpc # "raised"
    /\ dpc = "done" => Len(page_log) = Len(doc)

(***************************************************************************)
(* Claims about the image quality scorer (checked under SpecAnalyze).      *)
(***************************************************************************)
\* the entries (region, analysis) that carry a score
Scored == Range(likely_images) \cup Range(likely_text)

\* the regions the loop has handled
Handled == {results_regions[k] : k \in 1..region_pos}

\* the file can be decoded into an image that has pixels
Decodable(file) == file.kind = "image" /\ file.width > 0 /\ file.height > 0

\* the four bands as the specification words them
AreaBand(area) ==
    CASE area > 50000 -> 30
      [] area > 20000 /\ area <= 50000 -> 20
      [] area > 10000 /\ area <= 20000 -> 10
      [] area <= 10000 -> 0

VarianceBand(var) ==
    LET v3 == var[1] + var[2] + var[3]
    IN  CASE v3 > 6000 -> 25
          [] v3 > 3000 /\ v3 <= 6000 -> 15
          [] v3 > 1500 /\ v3 <= 3000 -> 10
          [] v3 <= 1500 -> 0

AspectBand(wd, ht) ==
    LET long == IF wd >= ht THEN wd ELSE ht
        short == IF wd >= ht THEN ht ELSE wd
    IN  CASE long < 3 * short -> 15
          [] long >= 3 * short /\ long < 5 * short -> 10
          [] long >= 5 * short -> 0

BrightnessBand(mean) ==
    LET m3 == mean[1] + mean[2] + mean[3]
    IN  IF m3 > 150 /\ m3 < 600 THEN 10 ELSE 0

\* C11: for every decodable image the score of analyze_image_content is the
\* sum of the four independent bands (area, mean variance, aspect ratio,
\* mean brightness); area 60000 with variance 2500, aspect 1.5 and brightness
\* 100 scores 80, and area 5000 with variance 100, aspect 8 and brightness 250
\* scores 0.
C11_ScoreIsBandSum ==
    /\ \A r \in Handled : Decodable(r.disk) => \E e \in Scored : e[1] = r
    /\ \A e \in Scored :
          LET f == e[1].disk
          IN  /\ Decodable(f)
              /\ e[2].score = AreaBand(f.width * f.height) + VarianceBand(f.var)
                                + AspectBand(f.width, f.height) + BrightnessBand(f.mean)
              /\ (f = ImageFile(300, 200, <<2500, 2500, 2500>>, <<100, 100, 100>>)
                    => e[2].score = 80)
              /\ (f = ImageFile(200, 25, <<100, 100, 100>>, <<250, 250, 250>>)
                    => e[2].score = 0)

C11_Witness ==
    /\ apc = "done"
    /\ \E e \in Scored :
          /\ e[1].disk = ImageFile(300, 200, <<2500, 2500, 2500>>, <<100, 100, 100>>)
          /\ e[2].score = 80
    /\ \E e \in Scored :
          /\ e[1].disk = ImageFile(200, 25, <<100, 100, 100>>, <<250, 250, 250>>)
          /\ e[2].score = 0

\* C12: for every result of analyze_image_content on a decodable image,
\* likely_image is true if and only if the score is strictly greater than 40;
\* a score of exactly 40 gives likely_image = false.
C12_LikelyIffAbove40 ==
    /\ \A e \in Scored : e[2].likely_image <=> e[2].score > 40
    /\ \A e \in Range(likely_images) : e[2].likely_image /\ e[2].score > 40
    /\ \A e \in Range(likely_text) : ~e[2].likely_image /\ e[2].score <= 40

C12_Witness ==
    /\ apc = "done"
    /\ \E e \in Range(likely_text) : e[2].score = 40
    /\ \E e \in Range(likely_images) : e[2].score = 45

\* the region's file cannot be scored: it is missing, cannot be decoded, or
\* has a side of zero pixels
Unscorable(file) == ~Decodable(file)

\* what C13 has in common as stated and as amended: the failure is not
\* raised, the region is listed under errors and nowhere else, its result
\* says likely_image = false, and the loop reaches every region
FailureContained ==
    /\ apc # "raised"
    /\ \A r \in Handled :
          Unscorable(r.disk) =>
              /\ \E e \in Range(errors) : e[1] = r
              /\ ~\E e \in Scored : e[1] = r
    /\ \A e \in Range(errors) :
          /\ Unscorable(e[1].disk)
          /\ e[1].disk.kind # "missing" => e[2].likely_image = FALSE
    /\ Len(errors) + Len(likely_images) + Len(likely_text) = region_pos
    /\ apc = "done" => region_pos = Len(results_regions)

\* C13 as stated: when an image cannot be opened or decoded, or scoring
\* raises, analyze_image_content returns a result with score 0 and
\* likely_image = false, and analyze_extraction_results goes on and never
\* lists the region among the likely images.
C13_FailureScoresZero ==
    /\ FailureContained
    /\ \A e \in Range(errors) :
          e[1].disk.kind # "missing" =>
              "score" \in DOMAIN e[2] /\ e[2].score = 0

\* C13 as amended: the result of a failed analysis carries the error text
\* and likely_image = false and no score at all; the region is listed under
\* errors, never among the likely images, and the loop goes on.
C13_FailureReturnsErrorResult ==
    /\ FailureContained
    /\ \A e \in Range(errors) :
          /\ DOMAIN e[2] = (IF e[1].disk.kind = "missing"
                            THEN {"error"} ELSE {"error", "likely_image"})
          /\ "score" \notin DOMAIN e[2]

C13_Witness ==
    /\ apc = "done"
    /\ Len(errors) >= 1
    /\ \E k \in 1..(Len(results_regions) - 1) :
          /\ results_regions[k].disk.kind = "corrupt"
          /\ Decodable(results_regions[k + 1].disk)
          /\ \E e \in Range(likely_images) : e[1] = results_regions[k + 1]

(***************************************************************************)
(* Claims about the content classifier (checked under SpecClassify).       *)
(***************************************************************************)
\* the sum, in tenths, of the weights of the patterns of one type that the
\* text matches
RECURSIVE SummedWeight(_, _, _)
SummedWeight(q_type, text, n) ==
    IF n = 0 THEN 0
    ELSE SummedWeight(q_type, text, n - 1) +
         (IF Search(patterns[q_type][n].pattern, text)
          THEN patterns[q_type][n].weight ELSE 0)

TypeWeight == [s \in TextSet |-> [k \in 1..Len(TypeOrder) |->
                  SummedWeight(TypeOrder[k], s, Len(patterns[TypeOrder[k]]))]]

\* the highest summed weight of a text
WinningWeight == [s \in TextSet |->
    Greatest({TypeWeight[s][k] : k \in 1..Len(TypeOrder)})]

\* the type the specification lets win: the first type, in the order
\* multiple_choice, sata, fill_blank, matrix, whose summed weight is the
\* highest; unknown when no pattern of any type matches
WinningType == [s \in TextSet |->
    IF WinningWeight[s] = 0 THEN "unknown"
    ELSE TypeOrder[Least({k \in 1..Len(TypeOrder) : TypeWeight[s][k] = WinningWeight[s]})]]

\* every result classify has returned, with or without the image hint, and
\* every result of the quick copy
ClassifyResults ==
    Range(classified[TRUE]) \cup Range(classified[FALSE]) \cup Range(quick_classified)

\* C14: classify returns the type whose matching patterns have the highest
\* summed weight; on a tie the first type reaching the maximum in the order
\* multiple_choice, sata, fill_blank, matrix wins; when no type pattern
\* matches the result is unknown.
C14_HighestWeightWins ==
    \A r \in ClassifyResults : r.question_type = WinningType[k_text]

\* the text matches one of the visual-reference phrases
MatchesVisualPhrase == [s \in TextSet |-> ReferencesVisuals(s)]

\* C15: the visual-reference bonus goes to the winning type only:
\* classify(text, True) returns the type classify(text, False) returns, a text
\* that matches no type pattern stays unknown with has_images true, and when
\* the text matches a visual-reference phrase the confidence is
\* min(1, winning weight + 0.3) (compared in tenths).
C15_BonusOnWinnerOnly ==
    /\ \A with \in Range(classified[TRUE]) :
          /\ \A without \in Range(classified[FALSE]) :
                with.question_type = without.question_type
          /\ WinningWeight[k_text] = 0 => with.question_type = "unknown"
          /\ MatchesVisualPhrase[k_text] /\ WinningWeight[k_text] > 0 =>
                with.confidence.t = Min(10, WinningWeight[k_text] + 3)

\* a double within [0, 1]
InUnitInterval(c) == ~DoubleGT(c, Double(10, 0)) /\ ~DoubleGT(Double(0, 0), c)

\* C16: for every text and every has_images value the confidence classify
\* returns, and the confidence_score stored in the topic, is within [0, 1],
\* also when several patterns of the winning type match and the bonus is
\* added so that the raw sum exceeds 1.
C16_ConfidenceInUnitInterval ==
    /\ \A r \in ClassifyResults : InUnitInterval(r.confidence)
    /\ \A k \in 1..Len(k_topics) :
          /\ InUnitInterval(k_topics[k].confidence_score)
          /\ \A r \in Range(classified[k_images # <<>>]) :
                k_topics[k].confidence_score = r.confidence

C16_Witness ==
    /\ k_text = TextSataVisual
    /\ k_images # <<>>
    /\ WinningWeight[k_text] + 3 > 10
    /\ Len(k_topics) = 1
    /\ k_topics[1].confidence_score = Double(10, 0)
    /\ classified[TRUE] # <<>>
    /\ classified[TRUE][1].confidence = Double(10, 0)

\* the matches of the two label formats in a text: 'A. text' and '(A) text'
DottedOptions == [s \in TextSet |-> FindAllOptions(s, TRUE, 1)]

ParenOptions == [s \in TextSet |-> FindAllOptions(s, FALSE, 1)]

\* C17: classify extracts options only when the winning type is
\* multiple_choice or sata (for fill_blank, matrix and unknown the list is
\* empty), and the options come from one label format only: if any 'A. text'
\* line matches, no '(A) text' match is added to the list.
C17_OptionsOneFormat ==
    \A r \in ClassifyResults :
        IF r.question_type \in {"multiple_choice", "sata"}
        THEN IF DottedOptions[k_text] # <<>>
             THEN r.extracted_options = DottedOptions[k_text]
             ELSE r.extracted_options = ParenOptions[k_text]
        ELSE r.extracted_options = <<>>

C17_Witness ==
    /\ k_text = TextMixedLabels
    /\ ParenOptions[k_text] # <<>>
    /\ classified[FALSE] # <<>>
    /\ classified[FALSE][1].question_type = "multiple_choice"
    /\ classified[FALSE][1].extracted_options =
          << <<"F","e","v","e","r">>, <<"R","a","s","h">> >>

\* C18: "Select all that apply: A. Fever B. Cough" classifies as sata and its
\* extracted options are exactly ["Fever", "Cough"]: each labeled option is a
\* separate string that does not hold the label of the option after it.
C18_FeverCoughOptions ==
    k_text = TextSataFever =>
        \A r \in ClassifyResults :
            /\ r.question_type = "sata"
            /\ r.extracted_options =
                  << <<"F","e","v","e","r">>, <<"C","o","u","g","h">> >>

\* the text holds "Correct answer: C" as it is written
HoldsCorrectAnswerC == [s \in TextSet |->
    Contains(s, <<"C","o","r","r","e","c","t"," ","a","n","s","w","e","r",":"," ","C">>)]

\* the answer the first matching pattern gives, the patterns taken in order
FirstPatternAnswer == [s \in TextSet |->
    LET found(n) == {i \in 1..Len(s) : AnswerAt(s, i, answer_patterns[n]) # 0}
        matching == {n \in 1..Len(answer_patterns) : found(n) # {}}
    IN  IF matching = {} THEN None
        ELSE <<UpperChar(s[AnswerAt(s, Least(found(Least(matching))),
                                    answer_patterns[Least(matching)])])>>]

\* C19: answer extraction does not depend on the classified type: any text
\* containing "Correct answer: C" yields correct_answer "C" whichever type
\* wins; the patterns are tried in order and the first that matches decides;
\* the result is None or one upper-case letter A-F.
C19_CorrectAnswerC ==
    \A r \in ClassifyResults :
        /\ HoldsCorrectAnswerC[k_text] => r.correct_answer = <<"C">>
        /\ r.correct_answer = FirstPatternAnswer[k_text]
        /\ \/ r.correct_answer = None
           \/ /\ Len(r.correct_answer) = 1
              /\ r.correct_answer[1] \in OptionLabels

\* the candidates of the three patterns of EnhancedPDFExtractor in order,
\* stripped and without punctuation; None where the pattern does not match
Candidates == [s \in TextSet |-> [n \in 1..3 |->
    IF SubjectMatch(s, n) = None THEN None ELSE CleanSubject(SubjectMatch(s, n))]]

\* the first candidate of more than 5 characters, or None
FirstLongCandidate == [s \in TextSet |->
    LET long == {n \in 1..3 : Len(Candidates[s][n]) > 5}
    IN  IF long = {} THEN None ELSE Candidates[s][Least(long)]]

\* the stripped groups of the three patterns of HybridPDFExtractor in order
HybridCandidates == [s \in TextSet |-> [n \in 1..3 |->
    IF HybridSubjectMatch(s, n) = None THEN None ELSE Strip(HybridSubjectMatch(s, n))]]

\* the first of them of more than 5 characters, or None
HybridFirstLongCandidate == [s \in TextSet |->
    LET long == {n \in 1..3 : Len(HybridCandidates[s][n]) > 5}
    IN  IF long = {} THEN None ELSE HybridCandidates[s][Least(long)]]

\* the group of the first pattern of HybridPDFExtractor that matches
HybridFirstCandidate == [s \in TextSet |->
    LET matching == {n \in 1..3 : HybridSubjectMatch(s, n) # None}
    IN  IF matching = {} THEN None ELSE HybridCandidates[s][Least(matching)]]

\* the subject EnhancedPDFExtractor returns is the first candidate longer
\* than 5 characters, later patterns being tried after a short candidate
EnhancedSubjectFiltered ==
    \A v \in Range(subject) :
        /\ v # None => Len(v) > 5
        /\ v = FirstLongCandidate[k_text]

\* C20 as stated: every subject returned by _extract_subject (of
\* EnhancedPDFExtractor and of HybridPDFExtractor) has more than 5 characters
\* after punctuation stripping; a shorter candidate of an earlier pattern is
\* rejected and the later patterns are still tried; if no pattern gives a
\* long enough candidate the subject is None.
C20_SubjectsLongerThanFive ==
    /\ EnhancedSubjectFiltered
    /\ \A v \in Range(hybrid_subject) :
          /\ v # None => Len(v) > 5
          /\ v = HybridFirstLongCandidate[k_text]

\* C20 as amended: the above holds of EnhancedPDFExtractor._extract_subject;
\* HybridPDFExtractor._extract_subject has no length filter and returns the
\* stripped group of the first pattern that matches, whatever its length.
C20_EnhancedSubjectsLongerThanFive ==
    /\ EnhancedSubjectFiltered
    /\ \A v \in Range(hybrid_subject) : v = HybridFirstCandidate[k_text]

C20_Witness ==
    /\ k_text = TextSubjectShort
    /\ Candidates[k_text][1] = <<"a","b">>
    /\ subject = << <<"N","U","R","S","I","N","G"," ","C","A","R","E">> >>
    /\ hybrid_subject = << <<"a","b">> >>

(***************************************************************************)
(* Claims about the validation reducers (checked under SpecReport).        *)
(***************************************************************************)
\* what the reducers returned, first of enhanced_validation
Reports == validation_report \o quick_report

IsErrorMarker(report) == DOMAIN report = {"error"}

\* no field of the report is a ZeroDivisionError
NoZeroDivision(report) ==
    \A field \in DOMAIN report \cap {"success_rate", "image_coverage", "average_confidence"} :
        "raises" \notin DOMAIN report[field]

\* C21: enhanced_validation and validate_extraction return the error marker
\* for an empty topic list, without a division by zero, and never return it
\* for a non-empty list.
C21_ErrorMarkerIffEmpty ==
    \A k \in 1..Len(Reports) :
        /\ IsErrorMarker(Reports[k]) <=> Len(v_topics) = 0
        /\ IsErrorMarker(Reports[k]) => Reports[k].error = "No topics extracted"
        /\ NoZeroDivision(Reports[k])

\* both reducers have been called on the empty list
C21_Witness ==
    /\ Len(v_topics) = 0
    /\ validation_report # <<>> /\ IsErrorMarker(validation_report[1])
    /\ quick_report # <<>> /\ IsErrorMarker(quick_report[1])

\* the topics with a non-empty subject and a confidence strictly above 0.3
MeetsValidBar ==
    {k \in 1..Len(v_topics) :
        /\ Len(v_topics[k].subject) > 0
        /\ \/ v_topics[k].confidence_score.t > 3
           \/ v_topics[k].confidence_score.t = 3 /\ v_topics[k].confidence_score.u > 0}

HasImage == {k \in 1..Len(v_topics) : Len(v_topics[k].images) >= 1}

\* a ratio equal to n / Len(v_topics), and so within [0, 1]
IsShareOfTopics(ratio, n) ==
    /\ ratio.den > 0
    /\ ratio.num * Len(v_topics) = n * ratio.den
    /\ 0 <= ratio.num /\ ratio.num <= ratio.den

HistogramTotal(counts) ==
    LET types == DOMAIN counts
        Total[S \in SUBSET types] ==
            IF S = {} THEN 0
            ELSE LET q_type == CHOOSE x \in S : TRUE
                 IN  counts[q_type] + Total[S \ {q_type}]
    IN  Total[types]

\* the counts, the two ratios and the histogram of a report
CountsAsStated(report) ==
    /\ report.total_topics = Len(v_topics)
    /\ report.valid_topics = Cardinality(MeetsValidBar)
    /\ 0 <= report.valid_topics /\ report.valid_topics <= report.total_topics
    /\ IsShareOfTopics(report.success_rate, Cardinality(MeetsValidBar))
    /\ IsShareOfTopics(report.image_coverage, Cardinality(HasImage))
    /\ \A q_type \in DOMAIN report.question_type_distribution :
          report.question_type_distribution[q_type] =
              Cardinality({k \in 1..Len(v_topics) : v_topics[k].question_type = q_type})
    /\ HistogramTotal(report.question_type_distribution) = report.total_topics

\* the double average is not below the double low, not above the double high
AverageAtLeast(average, low) ==
    \/ average.num > low.t * average.den
    \/ average.num = low.t * average.den /\ average.u >= low.u

AverageAtMost(average, high) ==
    \/ average.num < high.t * average.den
    \/ average.num = high.t * average.den /\ average.u <= high.u

\* C22 as stated: for a non-empty list enhanced_validation reports the
\* counts, ratios and histogram as described, and min <= average <= max.
C22_ReportAsStated ==
    validation_report # <<>> /\ Len(v_topics) > 0 =>
        LET report == validation_report[1]
        IN  /\ CountsAsStated(report)
            /\ AverageAtLeast(report.average_confidence, report.confidence_range.min)
            /\ AverageAtMost(report.average_confidence, report.confidence_range.max)

\* C22 amended: the counts, ratios and histogram are as described; the exact
\* mean of the confidences lies between min and max, and the average
\* reported is a double next to the exact mean, inside [min, max] or not.
C22_ReportUpToRounding ==
    validation_report # <<>> /\ Len(v_topics) > 0 =>
        LET report == validation_report[1]
            average == report.average_confidence
        IN  /\ CountsAsStated(report)
            /\ report.confidence_range.min.t * average.den <= average.num
            /\ average.num <= report.confidence_range.max.t * average.den
            /\ average.u \in {-1, 0, 1}

\* a list with a topic exactly at 0.3 that is not counted, a topic that is,
\* and an average that rounding moved
C22_Witness ==
    /\ validation_report # <<>> /\ Len(v_topics) = MaxReportTopics
    /\ \E k \in 1..Len(v_topics) :
          v_topics[k].confidence_score = Double(3, 0) /\ Len(v_topics[k].subject) > 0
    /\ validation_report[1].valid_topics = 1
    /\ validation_report[1].topics_with_images = 1
    /\ validation_report[1].average_confidence.u # 0

(***************************************************************************)
(* Claims about the run of main() and of the element loops (checked under  *)
(* SpecMain).                                                              *)
(***************************************************************************)
\* the element passes the length test and its conversion does not raise
Convertible(element) ==
    Len(Strip(element.text)) >= MinElementLen /\ ~element.raises

\* the positions of the convertible elements, in order
ConvertiblePositions ==
    SelectSeq([k \in 1..Len(elements) |-> k], LAMBDA k : Convertible(elements[k]))

\* the element loop of the run is over
ConversionOver == pc \in {"associate", "done", "exit"}

\* C23: an element whose conversion raises is skipped and the loop goes on:
\* when the loop is over, the topics are those of exactly the convertible
\* elements, in order, those after a failing element included
C23_FailingElementSkipped ==
    ConversionOver =>
        /\ topic_source = ConvertiblePositions
        /\ Len(topics) = Len(topic_source)
        /\ \A k \in 1..Len(topics) : topics[k].content = elements[topic_source[k]].text

\* a loop has gone past a failing element and converted a later one
C23_Witness ==
    /\ pc = "exit"
    /\ entry_point \in {"call", "enhance"}
    /\ \E i, j \in 1..Len(elements) :
          /\ i < j
          /\ elements[i].raises
          /\ \E k \in 1..Len(topics) : topic_source[k] = j

\* C25: with the source document missing no extraction, classification or
\* association step runs and no JSON artifact is written;
\* extract_content_with_images ends with FileNotFoundError and main with
\* the return code 1
C25_MissingDocumentIsFatal ==
    ~pdf_exists =>
        /\ pc \in {"main", "call", "exit"}
        /\ images = <<>> /\ topics = <<>>
        /\ validation_report = <<>>
        /\ artifacts = <<>>
        /\ pc = "exit" =>
              /\ Len(outcome) = 1
              /\ entry_point = "call" =>
                    /\ "raises" \in DOMAIN outcome[1]
                    /\ outcome[1].raises = "FileNotFoundError"
              /\ entry_point = "main" =>
                    /\ "returns" \in DOMAIN outcome[1]
                    /\ outcome[1].returns # 0

\* extract_content_with_images has been called on a missing document and
\* has ended
C25_Witness ==
    /\ ~pdf_exists
    /\ entry_point = "call"
    /\ pc = "exit"
    /\ outcome # <<>>

\* C28: the ids are gap-free in production order: the k-th image produced
\* is img_k and the k-th topic produced is topic_k, whatever elements
\* failed to decode or to convert before them
C28_IdsGapFree ==
    /\ \A k \in 1..Len(images) : images[k].image_id = ImageId(k)
    /\ entry_point # "enhance" =>
          \A k \in 1..Len(topics) : topics[k].topic_id = TopicId(k)
    /\ \A j, k \in 1..Len(images) : images[j].image_id = images[k].image_id => j = k

\* a run has ended with two images, produced on both sides of an element
\* whose image data did not decode
C28_Witness ==
    /\ pc = "exit"
    /\ entry_point # "enhance"
    /\ Len(images) = 2
    /\ \E i \in 1..Len(elements) :
          /\ "image_base64" \in DOMAIN elements[i].metadata
          /\ image_source[1] < i
          /\ i < image_source[2]

\* the topic as a reader expects it: each image it lists, with its fields
TopicWithImages(topic) ==
    [topic EXCEPT !.images = [j \in 1..Len(topic.images) |-> images[topic.images[j]]]]

C26_ImagePageIsSourcePage ==
    \A k \in 1..Len(images) : images[k].page_number = elements[image_source[k]].page

(***************************************************************************)
(* Claims about create_filtered_results (checked under SpecAnalyze).       *)
(***************************************************************************)
\* the cut-off the manifest states
ManifestMinScore == manifest[1].filter_criteria[2]

\* C29: for every min_score the manifest lists, and the filtered directory
\* holds, exactly the analysed regions whose score is >= min_score
C29_CutOffIsMinScore ==
    apc = "filtered" =>
        /\ {manifest[1].images[k].original_filename : k \in 1..Len(manifest[1].images)}
              = {e[1].filename : e \in {x \in Scored : x[2].score >= ManifestMinScore}}
        /\ Cardinality(filtered_dir) = manifest[1].total_images

(***************************************************************************)
(* Claims about the page range (checked under SpecRange).                  *)
(***************************************************************************)
\* the pages first..last, in increasing order
PagesFromTo(first, last) == [k \in 1..(last - first + 1) |-> first + k - 1]

\* the pages one of the two loops has processed, in the order of processing
PagesDoneBy(loop) ==
    LET mine == SelectSeq(pages_done, LAMBDA e : e[1] = loop)
    IN  [k \in 1..Len(mine) |-> mine[k][2]]

\* the --pdf-pages argument is 'a-b', or 'a' with a = b
ArgIs(a, b) == pages_arg = PageArg(a, b) \/ (a = b /\ pages_arg = FormatInt(a))

\* C30: for the argument 'a' or 'a-b' with 1 <= a <= b, parse_page_range
\* yields a..b, both loops of the comprehensive script process exactly the
\* pages a..min(b, length of the document), each once and in increasing
\* order, and every record carries the page it comes from, within [a, b]
C30_PageRangeHandOff ==
    \A a \in 1..MaxRangeEnd, b \in 1..MaxRangeEnd :
        (a <= b /\ ArgIs(a, b)) =>
            /\ cli_pc # "failed"
            /\ cli_pc \notin {"cli"} => pdf_pages = PagesFromTo(a, b)
            /\ cli_pc \in {"regions", "done"} =>
                  PagesDoneBy("direct") = PagesFromTo(a, Min(b, Len(pdf_doc)))
            /\ cli_pc = "done" =>
                  PagesDoneBy("regions") = PagesFromTo(a, Min(b, Len(pdf_doc)))
            /\ \A r \in Range(direct_extraction) \cup Range(region_records) :
                  /\ a <= r.page /\ r.page <= b
                  /\ r.page <= Len(pdf_doc)
            /\ \A p \in 1..Len(pdf_doc) :
                  cli_pc = "done" /\ a <= p /\ p <= b =>
                      /\ Cardinality({r \in Range(direct_extraction) : r.page = p})
                            = pdf_doc[p].images
                      /\ Cardinality({r \in Range(region_records) : r.page = p})
                            = pdf_doc[p].regions

\* a range of two-digit pages that ends beyond the document has been
\* processed, with records from both loops on its first page
C30_Witness ==
    /\ cli_pc = "done"
    /\ pages_arg = PageArg(10, 11)
    /\ Len(pdf_doc) = 10
    /\ \E r \in Range(direct_extraction) : r.page = 10
    /\ \E r \in Range(region_records) : r.page = 10

====
